---- MODULE Spec2Model ----
(***************************************************************************)
(* Link adaptation of the multi-BSS scenario (scratch/multi-bss.cc):       *)
(* AutoMcsWifiManager, its per-link AutoMcsWifiRemoteStation records, the  *)
(* SNR threshold table m_thresholds and the selection history choosenMCS.  *)
(*                                                                         *)
(* SNRs are linear ratios.  They are kept as integers and every rescaled   *)
(* estimate as an exact fraction num/den: with widths 20/40 MHz and one or *)
(* two spatial streams all divisions of the code are by powers of two, so  *)
(* the double arithmetic of the code is exact and the fraction is the value*)
(* the code computes.  Data rates are in units of 100 kb/s.                *)
(***************************************************************************)
EXTENDS Integers, Sequences, FiniteSets, TLC

VARIABLES
    cfgId,          \* index of the configuration the scenario was built with
    now,            \* Simulator::Now(), in seconds
    stations,       \* link |-> AutoMcsWifiRemoteStation
    m_thresholds,   \* AutoMcsWifiManager::m_thresholds
    choosenMCS,     \* AutoMcsWifiManager::choosenMCS
    warmLen,        \* history: number of entries of choosenMCS appended before the threshold
    selected,       \* history: link |-> the estimate the search that filled the cache used
    ret,            \* what the last data request returned (NoRet after any other handler)
    aborted,        \* the process was ended by NS_FATAL_ERROR / a failed NS_ASSERT
    m_autoMCS,      \* AutoMcsWifiManager::m_autoMCS, the attribute "autoMCS"
    wifiNodes,      \* the nodes of the scenario: position, building information, BSS, PHY
    nodeRxPower,    \* <<TX node, RX node>> |-> the averaged received power, 0.001 dBm
    program,        \* which main() runs: "apb", "single-sta-single-link", "multi-bss"
    measStartTime,  \* measurement_start_time_ms
    measInterval,   \* measurement_interval_ms
    events,         \* the simulator's pending events, in the order they will run
    measurements,   \* the NetworkStats the last GenerateMeasurement appended
    aiManager,      \* the global Ptr<AiWifiManager>: "nullptr" or "sta"
    m_dataMode,     \* AiWifiManager::m_dataMode of the station's manager
    m_ctlMode,      \* AiWifiManager::m_ctlMode of the station's manager
    wifiTxStats,    \* WifiTxStatsHelper: node id |-> successes and failures so far
    totalSucc,      \* single-sta-single-link.cc: the counters of the previous step
    totalFail,
    stepSuccPerNode,            \* multi-bss.cc: node id |-> count of the step
    stepSuccPerNodeInitialized,
    succAtLastMeasurement       \* history variable, not kept by the program: node id |->
                                \* successes counted by wifiTxStats when
                                \* GenerateMeasurement of multi-bss.cc last ran

\* the state of the scenario around the rate manager
scenarioVars ==
    <<program, measStartTime, measInterval, events, measurements, aiManager, m_dataMode,
      m_ctlMode, wifiTxStats, totalSucc, totalFail, stepSuccPerNode,
      stepSuccPerNodeInitialized,
                   succAtLastMeasurement>>

\* what no handler of the rate manager writes
restVars == <<m_autoMCS, wifiNodes, nodeRxPower, scenarioVars>>

vars == <<cfgId, now, stations, m_thresholds, choosenMCS, warmLen, selected, ret, aborted,
          restVars>>

----------------------------------------------------------------------------
(* Bounds of the model *)

MaxHist == 3        \* longest choosenMCS explored
MaxTime == 15       \* last simulated second explored
TickSeconds == 5    \* simulated seconds between two explored instants
MaxMpdus == 2       \* most MPDUs acknowledged by one A-MPDU status report

(* Program constants *)

CACHE_INITIAL_VALUE == -100
WarmupSeconds == 10
MaxHeMcs == 11

Min(a, b) == IF a < b THEN a ELSE b
Max(a, b) == IF a > b THEN a ELSE b

----------------------------------------------------------------------------
(* WifiMode: modulation class and index inside the class.  For the OFDM    *)
(* class the index counts the rates 6, 12, 24 Mb/s, for ERP-OFDM as well;  *)
(* for DSSS 1 and 2 Mb/s, for HR-DSSS 5.5 and 11 Mb/s.                     *)

Mode(cls, idx) == [cls |-> cls, idx |-> idx]

OfdmRate6Mbps == Mode("OFDM", 0)

IsHtOrLater(mode) == mode.cls \in {"HT", "VHT", "HE"}

\* WifiMode::GetMcsValue: the MCS index of an HT/VHT/HE mode.  For a non-HT
\* mode the library asserts (debug build, outcome Abort) or returns 0.
Abort == -1
GetMcsValue(mode) == IF IsHtOrLater(mode) THEN {mode.idx} ELSE {0, Abort}

\* Index of the constellation/code rate of a mode in RequiredSnrTable
RateIndex(mode) ==
    CASE mode.cls = "HT" -> mode.idx % 8
      [] mode.cls = "OFDM" -> IF mode.idx = 2 THEN 3 ELSE mode.idx
      [] OTHER -> mode.idx

\* GetPhy()->CalculateSnr(txVector, m_ber): least SNR meeting the target BER.
\* It depends on the constellation and code rate of the mode only.
RequiredSnrTable == <<2, 4, 8, 16, 32, 64, 128, 256, 512, 1024, 2048, 4096>>
DsssSnrTable == <<1, 3>>        \* 1 and 2 Mb/s
HrDsssSnrTable == <<6, 12>>     \* 5.5 and 11 Mb/s
CalculateSnr(mode, nss, width) ==
    CASE mode.cls = "DSSS" -> DsssSnrTable[mode.idx + 1]
      [] mode.cls = "HR_DSSS" -> HrDsssSnrTable[mode.idx + 1]
      [] OTHER -> RequiredSnrTable[RateIndex(mode) + 1]

\* mode.GetDataRate(width, guardInterval, nss), 100 kb/s
HeBaseRate == <<86, 172, 258, 344, 516, 688, 774, 860, 1032, 1147, 1290, 1434>>
HtBaseRate == <<65, 130, 195, 260, 390, 520, 585, 650, 780, 867>>
OfdmBaseRate == <<60, 120, 240>>
DsssBaseRate == <<10, 20>>
HrDsssBaseRate == <<55, 110>>
GetDataRate(mode, width, gi, nss) ==
    CASE mode.cls = "HE" ->
            (HeBaseRate[mode.idx + 1] * (width \div 20) * nss * 136) \div (128 + (gi \div 100))
      [] mode.cls = "VHT" ->
            (HtBaseRate[mode.idx + 1] * (width \div 20) * nss * 40) \div (32 + (gi \div 100))
      [] mode.cls = "HT" ->
            (HtBaseRate[(mode.idx % 8) + 1] * (width \div 20) * nss * 40) \div (32 + (gi \div 100))
      [] mode.cls = "DSSS" -> DsssBaseRate[mode.idx + 1]
      [] mode.cls = "HR_DSSS" -> HrDsssBaseRate[mode.idx + 1]
      [] OTHER -> OfdmBaseRate[mode.idx + 1]

\* WifiMode::IsAllowed / WifiTxVector::IsValid: VHT MCS 9 does not exist at
\* 20 MHz with one or two streams and VHT MCS 6 not at 80 MHz with three;
\* the HT and HE formats allow every combination.
IsAllowed(mode, width, nss) ==
    CASE mode.cls = "VHT" -> /\ ~(mode.idx = 9 /\ width = 20 /\ nss \in {1, 2})
                             /\ ~(mode.idx = 6 /\ width = 80 /\ nss = 3)
      [] OTHER -> TRUE

----------------------------------------------------------------------------
(* Configurations: what the helpers of main() install on the device and    *)
(* what the peer advertised.  All links of a run share the peer profile.   *)

HeMcsList == <<Mode("HT", 0), Mode("HT", 8), Mode("VHT", 0),
               Mode("HE", 0), Mode("HE", 1), Mode("HE", 2)>>
VhtMcsList == <<Mode("HT", 0), Mode("HT", 1), Mode("VHT", 0), Mode("VHT", 1)>>
HtMcsList == <<Mode("HT", 0), Mode("HT", 1), Mode("HT", 8)>>
OfdmModeList == <<Mode("OFDM", 0), Mode("OFDM", 1), Mode("OFDM", 2)>>
Vht9McsList == <<Mode("HT", 0), Mode("HT", 8), Mode("VHT", 0), Mode("VHT", 9)>>
\* the modes of a PHY in the 2.4 GHz band
DsssModeList == <<Mode("DSSS", 0), Mode("HR_DSSS", 1), Mode("ERP_OFDM", 0),
                  Mode("ERP_OFDM", 1)>>

BaseConfig ==
    [links |-> {1},
     ht |-> TRUE, vht |-> TRUE, he |-> TRUE,
     staHt |-> TRUE, staVht |-> TRUE, staHe |-> TRUE,
     shortGi |-> FALSE, staShortGi |-> FALSE,
     gi |-> 800, staGi |-> 800,
     maxTxStreams |-> 2, staStreams |-> 2, phyStreams |-> 2,
     phyWidth |-> 20, staWidth |-> 20,
     mcsList |-> HeMcsList, modeList |-> OfdmModeList,
     phyMcsList |-> HeMcsList, phyModeList |-> OfdmModeList,
     basicModes |-> OfdmModeList]

Configs ==
    << BaseConfig,
       [BaseConfig EXCEPT !.maxTxStreams = 1, !.phyWidth = 40, !.staWidth = 40,
                          !.staGi = 1600],
       [BaseConfig EXCEPT !.he = FALSE, !.staHe = FALSE, !.shortGi = TRUE,
                          !.staShortGi = TRUE, !.staStreams = 1,
                          !.mcsList = VhtMcsList, !.phyMcsList = VhtMcsList],
       [BaseConfig EXCEPT !.he = FALSE, !.staHe = FALSE, !.vht = FALSE,
                          !.staVht = FALSE, !.shortGi = TRUE,
                          !.mcsList = HtMcsList, !.phyMcsList = HtMcsList],
       [BaseConfig EXCEPT !.he = FALSE, !.staHe = FALSE, !.vht = FALSE,
                          !.staVht = FALSE, !.ht = FALSE, !.staHt = FALSE,
                          !.maxTxStreams = 1, !.staStreams = 1, !.phyStreams = 1,
                          !.mcsList = <<>>, !.phyMcsList = <<>>],
       [BaseConfig EXCEPT !.links = {1, 2}, !.maxTxStreams = 1, !.staStreams = 1,
                          !.phyStreams = 1],
       \* the capabilities of a device that has no station yet
       [BaseConfig EXCEPT !.links = {}],
       [BaseConfig EXCEPT !.links = {}, !.phyWidth = 40, !.phyStreams = 1],
       [BaseConfig EXCEPT !.links = {}, !.he = FALSE, !.phyWidth = 80,
                          !.phyMcsList = Vht9McsList],
       [BaseConfig EXCEPT !.links = {}, !.phyWidth = 160, !.phyStreams = 1,
                          !.phyMcsList = <<Mode("HT", 0), Mode("HE", 0)>>],
       [BaseConfig EXCEPT !.links = {}, !.he = FALSE, !.vht = FALSE, !.ht = FALSE,
                          !.phyStreams = 1, !.phyMcsList = <<>>],
       \* a non-HT link in the 2.4 GHz band
       [BaseConfig EXCEPT !.he = FALSE, !.staHe = FALSE, !.vht = FALSE,
                          !.staVht = FALSE, !.ht = FALSE, !.staHt = FALSE,
                          !.maxTxStreams = 1, !.staStreams = 1, !.phyStreams = 1,
                          !.mcsList = <<>>, !.phyMcsList = <<>>,
                          !.modeList = DsssModeList, !.phyModeList = DsssModeList,
                          !.basicModes = <<Mode("DSSS", 0), Mode("ERP_OFDM", 1),
                                           Mode("HR_DSSS", 1)>>] >>

SingleLinkConfigs == {i \in 1..Len(Configs) : Cardinality(Configs[i].links) = 1}
MultiLinkConfigs == {i \in 1..Len(Configs) : Cardinality(Configs[i].links) > 1}
DeviceConfigs == {i \in 1..Len(Configs) : Configs[i].links = {}}

Cfg == Configs[cfgId]
Links == Cfg.links

\* Values a report or a request can carry in the configured scenario
Snrs == {0, 4, 16}
Widths == {w \in {20, 40} : w <= Cfg.staWidth}
Streams == 1..Min(Cfg.maxTxStreams, Cfg.staStreams)

----------------------------------------------------------------------------
(* The threshold table *)

\* the width of the OFDM modes for every non-HT mode
GetChannelWidthForNonHtModeOfdm(mode) == 20

\* AutoMcsWifiManager::GetChannelWidthForNonHtMode
GetChannelWidthForNonHtMode(mode) ==
    IF mode.cls \in {"DSSS", "HR_DSSS"} THEN 22 ELSE 20

\* AutoMcsWifiManager::AddSnrThreshold: one (snr, txVector) pair; the table
\* is searched by the mode, NSS and channel width of the vector.
AddSnrThreshold(mode, nss, width, snr) ==
    <<[snr |-> snr, mode |-> mode, nss |-> nss, width |-> width]>>

RECURSIVE NonHtEntries(_, _)
NonHtEntries(modes, i) ==
    IF i > Len(modes) THEN <<>>
    ELSE LET mode == modes[i]
             width == GetChannelWidthForNonHtMode(mode)
         IN  AddSnrThreshold(mode, 1, width, CalculateSnr(mode, 1, width))
             \o NonHtEntries(modes, i + 1)

\* the loop over the streams without the test of mode.IsAllowed
RECURSIVE NssEntriesUnchecked(_, _, _, _)
NssEntriesUnchecked(mode, j, k, maxK) ==
    IF k > maxK THEN <<>>
    ELSE AddSnrThreshold(mode, k, j, CalculateSnr(mode, k, j))
         \o NssEntriesUnchecked(mode, j, k + 1, maxK)

RECURSIVE NssEntries(_, _, _, _)
NssEntries(mode, j, k, maxK) ==
    IF k > maxK THEN <<>>
    ELSE (IF IsAllowed(mode, j, k)
          THEN AddSnrThreshold(mode, k, j, CalculateSnr(mode, k, j))
          ELSE <<>>)
         \o NssEntries(mode, j, k + 1, maxK)

RECURSIVE WidthEntries(_, _, _)
WidthEntries(mode, j, c) ==
    IF j > c.phyWidth THEN <<>>
    ELSE (IF mode.cls = "HT"
          THEN LET nss == (mode.idx \div 8) + 1
               IN  AddSnrThreshold(mode, nss, j, CalculateSnr(mode, nss, j))
          ELSE NssEntries(mode, j, 1, c.phyStreams))
         \o WidthEntries(mode, 2 * j, c)

RECURSIVE McsEntries(_, _)
McsEntries(c, i) ==
    IF i > Len(c.phyMcsList) THEN <<>>
    ELSE WidthEntries(c.phyMcsList[i], 20, c) \o McsEntries(c, i + 1)

\* the build without m_thresholds.clear(): the new entries follow the old
BuildSnrThresholdsAppending(table, c) ==
    table \o NonHtEntries(c.phyModeList, 1) \o (IF c.ht THEN McsEntries(c, 1) ELSE <<>>)

\* AutoMcsWifiManager::BuildSnrThresholds: the table is cleared and refilled
\* from the mode list, the MCS list, the width and the streams of the PHY
BuildSnrThresholds(table, c) ==
    LET cleared == SubSeq(table, 1, 0)
    IN  cleared \o NonHtEntries(c.phyModeList, 1)
                \o (IF c.ht THEN McsEntries(c, 1) ELSE <<>>)

\* std::find_if over m_thresholds: index of the first matching pair, 0 if none
RECURSIVE FindThreshold(_, _, _, _, _)
FindThreshold(table, mode, nss, width, i) ==
    IF i > Len(table) THEN 0
    ELSE IF table[i].mode = mode /\ table[i].nss = nss /\ table[i].width = width
         THEN i
         ELSE FindThreshold(table, mode, nss, width, i + 1)

\* it->first for it = m_thresholds.end(): the read is undefined and gives
\* whatever lies behind the last pair, a value below or above every estimate
PastTheEnd == {0, 4096}

Looked(snr, table, rebuilt, fatal) ==
    [snr |-> snr, table |-> table, rebuilt |-> rebuilt, fatal |-> fatal]

\* AutoMcsWifiManager::GetSnrThreshold: the outcomes of a lookup, each with
\* the threshold, the table after the call, the number of rebuilds and
\* whether the run was ended.  With the key missing after the rebuild
\* NS_ASSERT_MSG ends the run in a build with assertions; in a build without
\* them the past-the-end iterator is read.
GetSnrThreshold(table, mode, nss, width, c) ==
    LET it == FindThreshold(table, mode, nss, width, 1)
    IN  IF it # 0 THEN {Looked(table[it].snr, table, 0, FALSE)}
        ELSE LET rebuiltTable == BuildSnrThresholds(table, c)
                 it2 == FindThreshold(rebuiltTable, mode, nss, width, 1)
             IN  IF it2 # 0 THEN {Looked(rebuiltTable[it2].snr, rebuiltTable, 1, FALSE)}
                 ELSE {Looked(0, rebuiltTable, 1, TRUE)}
                      \cup {Looked(g, rebuiltTable, 1, FALSE) : g \in PastTheEnd}

----------------------------------------------------------------------------
(* The per-link record *)

\* WifiRemoteStationManager::GetDefaultMode: the first mode of the PHY
GetDefaultMode(c) == c.phyModeList[1]

RECURSIVE FirstOfClass(_, _, _)
FirstOfClass(modes, cls, i) ==
    IF modes[i].cls = cls THEN modes[i] ELSE FirstOfClass(modes, cls, i + 1)

\* WifiRemoteStationManager::GetDefaultModeForSta: the default mode when HT
\* is not in use, else the lowest MCS of the highest class both ends support
GetDefaultModeForSta(c) ==
    IF ~c.ht \/ ~c.staHt THEN GetDefaultMode(c)
    ELSE IF c.he /\ c.staHe THEN FirstOfClass(c.phyMcsList, "HE", 1)
    ELSE IF c.vht /\ c.staVht THEN FirstOfClass(c.phyMcsList, "VHT", 1)
    ELSE FirstOfClass(c.phyMcsList, "HT", 1)

\* a reset that clears the cached SNR to 0 instead of the sentinel
ResetCacheToZero(c) ==
    [m_lastSnrObserved |-> 0,
     m_lastChannelWidthObserved |-> 0,
     m_lastNssObserved |-> 1,
     m_lastSnrCached |-> 0,
     m_lastMode |-> GetDefaultMode(c),
     m_lastChannelWidth |-> 0,
     m_lastNss |-> 1]

\* a reset to the default mode for the station instead of the default mode
ResetToStaDefault(c) ==
    [m_lastSnrObserved |-> 0,
     m_lastChannelWidthObserved |-> 0,
     m_lastNssObserved |-> 1,
     m_lastSnrCached |-> CACHE_INITIAL_VALUE,
     m_lastMode |-> GetDefaultModeForSta(c),
     m_lastChannelWidth |-> 0,
     m_lastNss |-> 1]

\* AutoMcsWifiManager::Reset
Reset(c) ==
    [m_lastSnrObserved |-> 0,
     m_lastChannelWidthObserved |-> 0,
     m_lastNssObserved |-> 1,
     m_lastSnrCached |-> CACHE_INITIAL_VALUE,
     m_lastMode |-> GetDefaultMode(c),
     m_lastChannelWidth |-> 0,
     m_lastNss |-> 1]

\* the estimate rescaled by the width only
GetLastObservedSnrWidthOnly(station, channelWidth, nss) ==
    LET w == channelWidth # station.m_lastChannelWidthObserved
    IN  [num |-> station.m_lastSnrObserved
                 * (IF w THEN station.m_lastChannelWidthObserved ELSE 1),
         den |-> IF w THEN channelWidth ELSE 1]

\* AutoMcsWifiManager::GetLastObservedSnr as the fraction num/den.  A division
\* by (width / 0) is a division by +infinity and yields 0, as num = 0 does.
GetLastObservedSnr(station, channelWidth, nss) ==
    LET w == channelWidth # station.m_lastChannelWidthObserved
        n == nss # station.m_lastNssObserved
    IN  [num |-> station.m_lastSnrObserved
                 * (IF w THEN station.m_lastChannelWidthObserved ELSE 1)
                 * (IF n THEN station.m_lastNssObserved ELSE 1),
         den |-> (IF w THEN channelWidth ELSE 1) * (IF n THEN nss ELSE 1)]

\* the comparison made non-strict
BelowOrEqual(threshold, snr) == threshold * snr.den <= snr.num

\* threshold < snr, for snr a fraction with a positive denominator
Below(threshold, snr) == threshold * snr.den < snr.num

----------------------------------------------------------------------------
(* DoGetDataTxVector: the candidates of a search, in the order the loops   *)
(* of the code visit them.  A candidate is a mode, an NSS, the width and   *)
(* guard interval of the scratch txVector at the time of the lookup.       *)

Candidate(mode, nss, width, gi) ==
    <<[mode |-> mode, nss |-> nss, width |-> width, gi |-> gi]>>

\* the short guard interval as soon as one end supports it
ShortGuardIntervalEither(c) ==
    Min(IF c.staShortGi THEN 400 ELSE 800, IF c.shortGi THEN 400 ELSE 800)

\* guard interval for HT and VHT: 400 ns only if both ends support it
ShortGuardInterval(c) ==
    Max(IF c.staShortGi THEN 400 ELSE 800, IF c.shortGi THEN 400 ELSE 800)

\* guard interval for HE: the longer of the two configured intervals
HeGuardInterval(c) == Max(c.staGi, c.gi)

RECURSIVE NssCandidates(_, _, _, _, _)
NssCandidates(mode, nss, maxNss, width, gi) ==
    IF nss > maxNss THEN <<>>
    ELSE (IF IsAllowed(mode, width, nss) THEN Candidate(mode, nss, width, gi) ELSE <<>>)
         \o NssCandidates(mode, nss + 1, maxNss, width, gi)

\* an iteration that searches the streams of an HT mode like those of a VHT mode
McsCandidatesHtSearched(mode, channelWidth, c) ==
    LET maxNss == Min(c.maxTxStreams, c.staStreams)
    IN  CASE mode.cls = "HT" ->
                IF (c.vht /\ c.staVht) \/ (c.he /\ c.staHe) THEN <<>>
                ELSE NssCandidates(mode, 1, maxNss, channelWidth, ShortGuardInterval(c))
          [] mode.cls = "VHT" ->
                IF (c.he /\ c.staHe) \/ ~c.vht \/ ~c.staVht THEN <<>>
                ELSE NssCandidates(mode, 1, maxNss, channelWidth, ShortGuardInterval(c))
          [] OTHER ->
                IF ~c.he \/ ~c.staHe THEN <<>>
                ELSE NssCandidates(mode, 1, maxNss, channelWidth, HeGuardInterval(c))

\* an iteration that keeps the HT modes on a link between VHT devices
McsCandidatesHtKept(mode, channelWidth, c) ==
    LET maxNss == Min(c.maxTxStreams, c.staStreams)
    IN  CASE mode.cls = "HT" ->
                IF c.he /\ c.staHe THEN <<>>
                ELSE LET nss == (mode.idx \div 8) + 1
                     IN  IF ~IsAllowed(mode, channelWidth, nss) \/ nss > maxNss
                         THEN <<>>
                         ELSE Candidate(mode, nss, channelWidth, ShortGuardInterval(c))
          [] mode.cls = "VHT" ->
                IF (c.he /\ c.staHe) \/ ~c.vht \/ ~c.staVht THEN <<>>
                ELSE NssCandidates(mode, 1, maxNss, channelWidth, ShortGuardInterval(c))
          [] OTHER ->
                IF ~c.he \/ ~c.staHe THEN <<>>
                ELSE NssCandidates(mode, 1, maxNss, channelWidth, HeGuardInterval(c))

\* one iteration of the loop over GetMcsSupported(station, i)
McsCandidates(mode, channelWidth, c) ==
    LET maxNss == Min(c.maxTxStreams, c.staStreams)
    IN  CASE mode.cls = "HT" ->
                IF (c.vht /\ c.staVht) \/ (c.he /\ c.staHe) THEN <<>>
                ELSE LET nss == (mode.idx \div 8) + 1
                     IN  IF ~IsAllowed(mode, channelWidth, nss) \/ nss > maxNss
                         THEN <<>>
                         ELSE Candidate(mode, nss, channelWidth, ShortGuardInterval(c))
          [] mode.cls = "VHT" ->
                IF (c.he /\ c.staHe) \/ ~c.vht \/ ~c.staVht THEN <<>>
                ELSE NssCandidates(mode, 1, maxNss, channelWidth, ShortGuardInterval(c))
          [] OTHER ->
                IF ~c.he \/ ~c.staHe THEN <<>>
                ELSE NssCandidates(mode, 1, maxNss, channelWidth, HeGuardInterval(c))

RECURSIVE HtCandidates(_, _, _)
HtCandidates(i, channelWidth, c) ==
    IF i > Len(c.mcsList) THEN <<>>
    ELSE McsCandidates(c.mcsList[i], channelWidth, c) \o HtCandidates(i + 1, channelWidth, c)

\* the loop over GetSupported(station, i) of the non-HT selection
RECURSIVE NonHtCandidates(_, _)
NonHtCandidates(i, c) ==
    IF i > Len(c.modeList) THEN <<>>
    ELSE Candidate(c.modeList[i], 1, GetChannelWidthForNonHtMode(c.modeList[i]), 800)
         \o NonHtCandidates(i + 1, c)

Candidates(channelWidth, c) ==
    IF c.ht /\ c.staHt THEN HtCandidates(1, channelWidth, c) ELSE NonHtCandidates(1, c)

\* the body of the loops keeping a candidate that is as fast as the best so far
TestCandidateLastWins(acc, cand, station, c) ==
    IF acc.fatal THEN {acc}
    ELSE {LET dataRate == GetDataRate(cand.mode, cand.width, cand.gi, cand.nss)
              snr == GetLastObservedSnr(station, cand.width, cand.nss)
              counted == [acc EXCEPT !.table = look.table,
                                     !.lookups = @ + 1,
                                     !.rebuilds = @ + look.rebuilt,
                                     !.fatal = look.fatal]
          IN  IF look.fatal THEN counted
              ELSE IF dataRate >= acc.bestRate /\ look.snr * snr.den < snr.num
                   THEN [counted EXCEPT !.bestRate = dataRate,
                                        !.maxMode = cand.mode,
                                        !.selectedNss = cand.nss]
                   ELSE counted
          : look \in GetSnrThreshold(acc.table, cand.mode, cand.nss, cand.width, c)}

\* The body shared by the four loops: look the threshold up, compute the
\* data rate and the estimate, and keep the candidate if it is faster than
\* the best so far and its threshold is below the estimate.
TestCandidate(acc, cand, station, c) ==
    IF acc.fatal THEN {acc}
    ELSE {LET dataRate == GetDataRate(cand.mode, cand.width, cand.gi, cand.nss)
              snr == GetLastObservedSnr(station, cand.width, cand.nss)
              counted == [acc EXCEPT !.table = look.table,
                                     !.lookups = @ + 1,
                                     !.rebuilds = @ + look.rebuilt,
                                     !.fatal = look.fatal]
          IN  IF look.fatal THEN counted
              ELSE IF dataRate > acc.bestRate /\ Below(look.snr, snr)
                   THEN [counted EXCEPT !.bestRate = dataRate,
                                        !.maxMode = cand.mode,
                                        !.selectedNss = cand.nss]
                   ELSE counted
          : look \in GetSnrThreshold(acc.table, cand.mode, cand.nss, cand.width, c)}

\* the loops from candidate i on, for each of the outcomes reached so far
RECURSIVE SearchFrom(_, _, _, _, _)
SearchFrom(accs, cands, i, station, c) ==
    IF i > Len(cands) THEN accs
    ELSE SearchFrom(UNION {TestCandidate(acc, cands[i], station, c) : acc \in accs},
                    cands, i + 1, station, c)

\* the search starting from the mode the link had cached
SearchFromCached(station, table, channelWidth, c) ==
    SearchFrom({[bestRate |-> 0, maxMode |-> station.m_lastMode,
                 selectedNss |-> station.m_lastNss,
                 table |-> table, lookups |-> 0, rebuilds |-> 0, fatal |-> FALSE]},
               Candidates(channelWidth, c), 1, station, c)

\* the search: maxMode starts as the default mode for the station, NSS as 1
Search(station, table, channelWidth, c) ==
    SearchFrom({[bestRate |-> 0, maxMode |-> GetDefaultModeForSta(c), selectedNss |-> 1,
                 table |-> table, lookups |-> 0, rebuilds |-> 0, fatal |-> FALSE]},
               Candidates(channelWidth, c), 1, station, c)

----------------------------------------------------------------------------
(* DoGetDataTxVector *)

NoRet ==
    [op |-> "none", link |-> 0, time |-> 0, phase |-> "none", hit |-> FALSE,
     channelWidth |-> 0, mode |-> OfdmRate6Mbps, nss |-> 0, width |-> 0, gi |-> 0,
     lookups |-> 0, rebuilds |-> 0, qualified |-> FALSE, est |-> [num |-> 0, den |-> 1]]

\* the phase test with the boundary on the Warm-up side
IsWarmupInclusive(time) == time <= WarmupSeconds

\* Simulator::Now().GetSeconds() < 10
IsWarmup(time) == time < WarmupSeconds

\* the test that skips the search, without the comparison of the widths
CacheHitAnyWidth(station, channelWidth) ==
    /\ station.m_lastSnrCached # CACHE_INITIAL_VALUE
    /\ station.m_lastSnrObserved = station.m_lastSnrCached

\* the test that skips the search
CacheHit(station, channelWidth) ==
    /\ station.m_lastSnrCached # CACHE_INITIAL_VALUE
    /\ station.m_lastSnrObserved = station.m_lastSnrCached
    /\ channelWidth = station.m_lastChannelWidth

\* the update of the cache without the assignment to m_lastMode
UpdateCacheKeepMode(station, maxMode, selectedNss) ==
    [station EXCEPT !.m_lastSnrCached = station.m_lastSnrObserved,
                    !.m_lastNss = selectedNss]

\* "Updating cached values for station"
UpdateCache(station, maxMode, selectedNss) ==
    [station EXCEPT !.m_lastSnrCached = station.m_lastSnrObserved,
                    !.m_lastMode = maxMode,
                    !.m_lastNss = selectedNss]

RECURSIVE Sum(_, _)
Sum(seq, i) == IF i > Len(seq) THEN 0 ELSE seq[i] + Sum(seq, i + 1)

\* std::ceil(average / choosenMCS.size()) for a non-empty history of
\* non-negative integers
CeilAverage(hist) == (Sum(hist, 1) + Len(hist) - 1) \div Len(hist)

\* static_cast<int>(std::ceil(average / choosenMCS.size())).  With an empty
\* history the quotient is NaN and the cast is undefined: the conversion
\* gives 0 on some targets and INT_MIN (here Abort, no such mode) on others.
AverageMcs(hist) == IF Len(hist) = 0 THEN {0, Abort} ELSE {CeilAverage(hist)}

\* WifiMode("HeMcs" + index) exists for the indices 0..11; any other name
\* ends the run with a fatal error
HeModeExists(index) == index \in 0..MaxHeMcs

\* WifiPhy::GetTxBandwidth
GetTxBandwidth(mode, maxAllowedWidth, c) ==
    CASE mode.cls \in {"DSSS", "HR_DSSS"} -> 22
      [] mode.cls = "OFDM" -> Min(Min(c.phyWidth, 20), maxAllowedWidth)
      [] mode.cls = "HT" -> Min(Min(c.phyWidth, 40), maxAllowedWidth)
      [] OTHER -> Min(Min(c.phyWidth, 160), maxAllowedWidth)

\* the guard interval of the returned vector
GuardIntervalOf(maxMode, c) ==
    CASE maxMode.cls = "HE" -> HeGuardInterval(c)
      [] maxMode.cls \in {"HT", "VHT"} -> ShortGuardInterval(c)
      [] OTHER -> 800

\* the tail of the function, after the phases: the width is stored and the
\* vector is built
Finish(station, table, time, phase, hit, channelWidth, maxMode, selectedNss, lookups, rebuilds, c) ==
    [station |-> [station EXCEPT !.m_lastChannelWidth = channelWidth],
     table |-> table,
     aborted |-> FALSE,
     ret |-> [op |-> "data", link |-> 0, time |-> time, phase |-> phase, hit |-> hit,
              channelWidth |-> channelWidth, mode |-> maxMode, nss |-> selectedNss,
              width |-> GetTxBandwidth(maxMode, channelWidth, c),
              gi |-> GuardIntervalOf(maxMode, c),
              lookups |-> lookups, rebuilds |-> rebuilds,
              qualified |-> FALSE, est |-> [num |-> 0, den |-> 1]]]

Fatal(station, table) ==
    [station |-> station, table |-> table, aborted |-> TRUE, ret |-> NoRet]

WarmupRequest(station, table, time, channelWidth, c) ==
    IF CacheHit(station, channelWidth)
    THEN {Finish(station, table, time, "warmup", TRUE, channelWidth,
                 station.m_lastMode, station.m_lastNss, 0, 0, c)}
    ELSE {IF best.fatal THEN Fatal(station, best.table)
          ELSE Finish(UpdateCache(station, best.maxMode, best.selectedNss),
                      best.table, time, "warmup", FALSE, channelWidth,
                      best.maxMode, best.selectedNss, best.lookups, best.rebuilds, c)
          : best \in Search(station, table, channelWidth, c)}

\* the Converged branch also writing its choice into the cache
ConvergedRequestCaching(station, table, hist, time, channelWidth, c) ==
    {IF HeModeExists(index)
     THEN Finish(UpdateCache(station, Mode("HE", index), 1), table, time, "converged",
                 FALSE, channelWidth, Mode("HE", index), 1, 0, 0, c)
     ELSE Fatal(station, table) : index \in AverageMcs(hist)}

ConvergedRequest(station, table, hist, time, channelWidth, c) ==
    {IF HeModeExists(index)
     THEN Finish(station, table, time, "converged", FALSE, channelWidth,
                 Mode("HE", index), 1, 0, 0, c)
     ELSE Fatal(station, table) : index \in AverageMcs(hist)}

\* The outcomes of AutoMcsWifiManager::DoGetDataTxVector(st, allowedWidth)
DoGetDataTxVector(station, table, hist, time, allowedWidth, c) ==
    LET channelWidth == Min(c.staWidth, allowedWidth)
    IN  IF IsWarmup(time)
        THEN WarmupRequest(station, table, time, channelWidth, c)
        ELSE ConvergedRequest(station, table, hist, time, channelWidth, c)

----------------------------------------------------------------------------
(* DoGetRtsTxVector *)

\* the body of the loop accepting a threshold equal to the observed SNR
TestBasicModeInclusive(acc, mode, station, c) ==
    IF acc.fatal THEN {acc}
    ELSE {LET looked == [acc EXCEPT !.table = look.table, !.fatal = look.fatal]
          IN  IF look.fatal THEN looked
              ELSE IF look.snr > acc.maxThreshold /\ look.snr <= station.m_lastSnrObserved
                   THEN [looked EXCEPT !.maxThreshold = look.snr, !.maxMode = mode]
                   ELSE looked
          : look \in GetSnrThreshold(acc.table, mode, 1,
                                     GetChannelWidthForNonHtMode(mode), c)}

\* The body of the loop over the basic modes: the threshold of the mode at
\* NSS 1 and its non-HT width is looked up, and the mode is kept if the
\* threshold is above the best so far and below the observed SNR.
TestBasicMode(acc, mode, station, c) ==
    IF acc.fatal THEN {acc}
    ELSE {LET looked == [acc EXCEPT !.table = look.table, !.fatal = look.fatal]
          IN  IF look.fatal THEN looked
              ELSE IF look.snr > acc.maxThreshold /\ look.snr < station.m_lastSnrObserved
                   THEN [looked EXCEPT !.maxThreshold = look.snr, !.maxMode = mode]
                   ELSE looked
          : look \in GetSnrThreshold(acc.table, mode, 1,
                                     GetChannelWidthForNonHtMode(mode), c)}

\* the loop from basic mode i on, for each of the outcomes reached so far
RECURSIVE BasicModesFrom(_, _, _, _)
BasicModesFrom(accs, i, station, c) ==
    IF i > Len(c.basicModes) THEN accs
    ELSE BasicModesFrom(UNION {TestBasicMode(acc, c.basicModes[i], station, c) : acc \in accs},
                        i + 1, station, c)

\* the control vector: the number of antennas and the NSS are the literal 1
RtsTxVector(mode, gi, width) ==
    [op |-> "rts", link |-> 0, mode |-> mode, nss |-> 1, width |-> width, gi |-> gi]

\* the request searching the basic modes whatever the attribute says
DoGetRtsTxVectorSearching(station, table, autoMCS, c) ==
    {IF acc.fatal THEN [table |-> acc.table, aborted |-> TRUE, ret |-> NoRet]
     ELSE [table |-> acc.table, aborted |-> FALSE,
           ret |-> RtsTxVector(acc.maxMode, 800, GetChannelWidthForNonHtMode(acc.maxMode))]
     : acc \in BasicModesFrom({[maxThreshold |-> 0, maxMode |-> GetDefaultMode(c),
                                table |-> table, fatal |-> FALSE]}, 1, station, c)}

\* The outcomes of AutoMcsWifiManager::DoGetRtsTxVector(st)
DoGetRtsTxVector(station, table, autoMCS, c) ==
    IF ~autoMCS
    THEN {IF acc.fatal THEN [table |-> acc.table, aborted |-> TRUE, ret |-> NoRet]
          ELSE [table |-> acc.table, aborted |-> FALSE,
                ret |-> RtsTxVector(acc.maxMode, 800,
                                    GetChannelWidthForNonHtMode(acc.maxMode))]
          : acc \in BasicModesFrom({[maxThreshold |-> 0, maxMode |-> GetDefaultMode(c),
                                     table |-> table, fatal |-> FALSE]}, 1, station, c)}
    ELSE {[table |-> table, aborted |-> FALSE,
           ret |-> RtsTxVector(OfdmRate6Mbps, c.staGi,
                               GetTxBandwidth(OfdmRate6Mbps, c.staWidth, c))]}


----------------------------------------------------------------------------
(* TgaxResidentialPropagationLossModel.  Lengths are in half metres, so a  *)
(* distance is kept as its square; powers and losses are in 0.001 dB.      *)

\* Points inside and outside of a building of two by two rooms of 25 m by
\* 25 m on each of two floors of 3 m, Box(0, 100, 0, 100, 0, 12): the
\* building of main() with a floor added
Points ==
    {<<25, 25, 3>>, <<26, 25, 3>>, <<35, 25, 3>>, <<75, 25, 3>>, <<25, 25, 9>>,
     <<-10, 25, 3>>}

\* MobilityBuildingInfo of a node at position p: IsIndoor, GetFloorNumber,
\* GetRoomNumberX, GetRoomNumberY, as Building::GetFloor/GetRoomX/GetRoomY
\* compute them from the position
MobilityBuildingInfo(p) ==
    [indoor |-> p[1] \in 0..100 /\ p[2] \in 0..100 /\ p[3] \in 0..12,
     floor |-> IF p[3] = 12 THEN 2 ELSE (p[3] \div 6) + 1,
     roomX |-> IF p[1] = 100 THEN 2 ELSE (p[1] \div 50) + 1,
     roomY |-> IF p[2] = 100 THEN 2 ELSE (p[2] \div 50) + 1]

\* MobilityModel::GetDistanceFrom, squared
GetDistanceFrom(a, b) ==
    (a[1] - b[1]) * (a[1] - b[1]) + (a[2] - b[2]) * (a[2] - b[2])
        + (a[3] - b[3]) * (a[3] - b[3])

\* 1000 * std::log10(distance in metres), by the squared distance
Log10 ==
    (4 :> 0 @@ 36 :> 477 @@ 37 :> 483 @@ 81 :> 653 @@ 100 :> 699 @@ 136 :> 766 @@
       1225 :> 1243 @@ 1261 :> 1249 @@ 1296 :> 1255 @@ 1600 :> 1301 @@ 1681 :> 1312 @@
       2025 :> 1352 @@ 2401 :> 1389 @@ 2500 :> 1398 @@ 2501 :> 1398 @@ 2536 :> 1401 @@
       2581 :> 1405 @@ 2600 :> 1406 @@ 2601 :> 1407 @@ 4100 :> 1505 @@ 4181 :> 1510 @@
       4901 :> 1544 @@ 5000 :> 1548 @@ 5101 :> 1553 @@ 7225 :> 1628)

\* 1000 * 18.3 * std::pow(distance, (distance + 2) / (distance + 1) - 0.46),
\* the loss through one floor, by the squared distance
FloorLoss ==
    (36 :> 43589 @@ 37 :> 43938 @@ 136 :> 61383 @@ 2536 :> 118177)

\* 1000 * 20 * std::log10(m_frequencyHz / fc), by the frequency in MHz: the
\* default of the attribute and the values main() sets for the three bands
FrequencyLoss == (2437 :> 133 @@ 2400 :> 0 @@ 5000 :> 6375 @@ 6000 :> 7959)

Abs(n) == IF n < 0 THEN -n ELSE n

\* the loss of a link that is not blocked: the distance is at least 1 m, the
\* term beyond the breakpoint of 5 m, the floors and the walls in between
PathLoss(a, b, frequency) ==
    LET aInfo == MobilityBuildingInfo(a.position)
        bInfo == MobilityBuildingInfo(b.position)
        distance == Max(4, GetDistanceFrom(a.position, b.position))
        floors == IF a.info /\ b.info THEN Abs(aInfo.floor - bInfo.floor) ELSE 0
        walls == IF a.info /\ b.info
                 THEN Abs(aInfo.roomX - bInfo.roomX) + Abs(aInfo.roomY - bInfo.roomY)
                 ELSE 0
    IN  40050 + FrequencyLoss[frequency] + 20 * Log10[Min(distance, 100)]
        + (IF distance > 100 THEN 35 * (Log10[distance] - Log10[100]) ELSE 0)
        + (IF floors # 0 THEN FloorLoss[distance] ELSE 0)
        + (IF walls # 0 THEN 5000 * walls ELSE 0)

\* both nodes have building information and one of them is outdoor
OneIsOutdoor(a, b) ==
    /\ a.info /\ b.info
    /\ ~MobilityBuildingInfo(a.position).indoor \/ ~MobilityBuildingInfo(b.position).indoor

\* the model with a loss of 200 dB for a blocked link
DoCalcRxPowerFloor(txPowerDbm, a, b, frequency) ==
    IF GetDistanceFrom(a.position, b.position) = 0 THEN {txPowerDbm}
    ELSE IF OneIsOutdoor(a, b) THEN {txPowerDbm - 200000}
    ELSE {txPowerDbm - PathLoss(a, b, frequency)}

\* the model testing the building information before the distance
DoCalcRxPowerBlockedFirst(txPowerDbm, a, b, frequency) ==
    IF OneIsOutdoor(a, b) THEN {0}
    ELSE IF GetDistanceFrom(a.position, b.position) = 0 THEN {txPowerDbm}
    ELSE {txPowerDbm - PathLoss(a, b, frequency)}

\* the model with the shadowing drawn at every call
DoCalcRxPowerShadowed(txPowerDbm, a, b, frequency) ==
    IF GetDistanceFrom(a.position, b.position) = 0 THEN {txPowerDbm}
    ELSE IF OneIsOutdoor(a, b) THEN {0}
    ELSE {txPowerDbm - PathLoss(a, b, frequency) + draw : draw \in {-5000, 5000}}

\* TgaxResidentialPropagationLossModel::DoCalcRxPower: the values a call
\* can return
DoCalcRxPower(txPowerDbm, a, b, frequency) ==
    IF GetDistanceFrom(a.position, b.position) = 0 THEN {txPowerDbm}
    ELSE IF OneIsOutdoor(a, b) THEN {0}
    ELSE {txPowerDbm - PathLoss(a, b, frequency)}

\* the values rxPower can have after n calls were added to 0; the integer
\* sums do not depend on the order, so the calls are added by halves
RECURSIVE SumOfCalls(_, _)
SumOfCalls(n, calls) ==
    IF n = 1 THEN calls
    ELSE LET firstHalf == SumOfCalls(n \div 2, calls)
             secondHalf == SumOfCalls(n - (n \div 2), calls)
         IN  {first + second : first \in firstHalf, second \in secondHalf}

\* GetRxPower(tgaxPropModel): for every TX node and every other node of
\* BSS 0 as RX node, the values rxPower / 100 can have after the 100 calls
NodeRxPower(nodes, frequency) ==
    [pair \in {q \in (1..Len(nodes)) \X (1..Len(nodes)) : q[1] # q[2] /\ nodes[q[2]].bss = 0} |->
        {rxPower \div 100 :
            rxPower \in SumOfCalls(100, DoCalcRxPower(nodes[pair[1]].txPower, nodes[pair[1]],
                                                      nodes[pair[2]], frequency))}]

\* the matrices nodeRxPower can hold after GetRxPower: one of the averages
\* for each pair
RECURSIVE RxPowerMatrices(_, _)
RxPowerMatrices(averages, pairs) ==
    IF pairs = {} THEN {<<>>}
    ELSE LET pair == CHOOSE q \in pairs : TRUE
         IN  {matrix @@ (pair :> average) :
                 matrix \in RxPowerMatrices(averages, pairs \ {pair}),
                 average \in averages[pair]}

----------------------------------------------------------------------------
(* The reports *)

\* choosenMCS.emplace_back(station->m_lastMode.GetMcsValue()), n times
RECURSIVE Repeat(_, _)
Repeat(v, n) == IF n = 0 THEN <<>> ELSE <<v>> \o Repeat(v, n - 1)

Observe(station, snr, width, nss) ==
    [station EXCEPT !.m_lastSnrObserved = snr,
                    !.m_lastChannelWidthObserved = width,
                    !.m_lastNssObserved = nss]

Reported(station, hist, isAborted) ==
    [station |-> station, hist |-> hist, aborted |-> isAborted]

\* AutoMcsWifiManager::DoReportRtsOk
DoReportRtsOk(station, hist, rtsSnr, c) ==
    {Reported(Observe(station, rtsSnr, IF c.phyWidth >= 40 THEN 20 ELSE c.phyWidth, 1),
              hist, FALSE)}

\* AutoMcsWifiManager::DoReportDataOk
DoReportDataOk(station, hist, dataSnr, dataChannelWidth, dataNss, c) ==
    IF dataSnr = 0 THEN {Reported(station, hist, FALSE)}
    ELSE LET seen == Observe(station, dataSnr, dataChannelWidth, dataNss)
         IN  IF station.m_lastMode # GetDefaultMode(c)
             THEN {IF v = Abort THEN Reported(seen, hist, TRUE)
                                ELSE Reported(seen, Append(hist, v), FALSE)
                   : v \in GetMcsValue(station.m_lastMode)}
             ELSE {Reported(seen, hist, FALSE)}

\* AutoMcsWifiManager::DoReportAmpduTxStatus
DoReportAmpduTxStatus(station, hist, nSuccessfulMpdus, nFailedMpdus, dataSnr, dataChannelWidth, dataNss, c) ==
    IF dataSnr = 0 THEN {Reported(station, hist, FALSE)}
    ELSE LET seen == Observe(station, dataSnr, dataChannelWidth, dataNss)
         IN  IF nSuccessfulMpdus = 0 THEN {Reported(seen, hist, FALSE)}
             ELSE {IF v = Abort THEN Reported(station, hist, TRUE)
                                ELSE Reported(seen, hist \o Repeat(v, nSuccessfulMpdus), FALSE)
                   : v \in GetMcsValue(station.m_lastMode)}

\* AutoMcsWifiManager::DoReportFinalRtsFailed
DoReportFinalRtsFailed(station, hist, c) == {Reported(Reset(c), hist, FALSE)}

\* a final failure that also forgets the history
DoReportFinalDataFailedForgetting(station, hist, c) == {Reported(Reset(c), <<>>, FALSE)}

\* AutoMcsWifiManager::DoReportFinalDataFailed
DoReportFinalDataFailed(station, hist, c) == {Reported(Reset(c), hist, FALSE)}

----------------------------------------------------------------------------
(* What a search had to choose from, stated over the table and the link    *)
(* record without running the search                                       *)

\* the threshold stored for a key the table holds
TableSnr(table, mode, nss, width) == table[FindThreshold(table, mode, nss, width, 1)].snr

\* the candidate's threshold is strictly below the estimate for its width and NSS
Qualifies(cand, station, table) ==
    LET est == GetLastObservedSnr(station, cand.width, cand.nss)
    IN  /\ FindThreshold(table, cand.mode, cand.nss, cand.width, 1) # 0
        /\ TableSnr(table, cand.mode, cand.nss, cand.width) * est.den < est.num

Qualifying(station, table, channelWidth, c) ==
    LET cands == Candidates(channelWidth, c)
    IN  {i \in 1..Len(cands) : Qualifies(cands[i], station, table)}

AnyQualifies(station, table, channelWidth, c) ==
    Qualifying(station, table, channelWidth, c) # {}

NoSelection == [qualified |-> FALSE, est |-> [num |-> 0, den |-> 1]]

\* WifiMode(name) of a name built as prefix + value (+ "Mbps"): the mode,
\* with its modulation class
WifiMode(prefix, value) ==
    [cls |-> CASE prefix = "HeMcs" -> "HE"
               [] prefix = "OfdmRate" -> "OFDM"
               [] OTHER -> "ERP_OFDM",
     prefix |-> prefix, value |-> value]

\* a manager on its own: no measurement loop, no action, no traffic counters
NoScenario ==
    /\ program = "none"
    /\ measStartTime = 0
    /\ measInterval = 0
    /\ events = <<>>
    /\ measurements = {}
    /\ aiManager = "nullptr"
    /\ m_dataMode = WifiMode("OfdmRate", 6)
    /\ m_ctlMode = WifiMode("OfdmRate", 6)
    /\ wifiTxStats = <<>>
    /\ totalSucc = 0
    /\ totalFail = 0
    /\ stepSuccPerNode = <<>>
    /\ stepSuccPerNodeInitialized = FALSE
    /\ succAtLastMeasurement = <<>>

----------------------------------------------------------------------------
(* The state machine *)

\* DoInitialize builds the table; DoCreateStation resets each new station
InitWith(ids, flags) ==
    /\ cfgId \in ids
    /\ m_autoMCS \in flags
    /\ wifiNodes = <<>>
    /\ nodeRxPower = <<>>
    /\ NoScenario
    /\ now = 0
    /\ stations = [l \in Configs[cfgId].links |-> Reset(Configs[cfgId])]
    /\ m_thresholds = BuildSnrThresholds(<<>>, Configs[cfgId])
    /\ choosenMCS = <<>>
    /\ warmLen = 0
    /\ selected = [l \in Configs[cfgId].links |-> NoSelection]
    /\ ret = NoRet
    /\ aborted = FALSE

\* a manager serving one link, in each of the capability profiles
Init == InitWith(SingleLinkConfigs, {TRUE})

\* a manager serving several links
InitLinks == InitWith(MultiLinkConfigs, {TRUE})

\* the scheduler runs the next event at a later instant
Tick ==
    /\ ~aborted
    /\ now + TickSeconds <= MaxTime
    /\ now' = now + TickSeconds
    /\ UNCHANGED <<cfgId, stations, m_thresholds, choosenMCS, warmLen, selected, ret, aborted, restVars>>

GetDataTxVector(l, allowedWidth) ==
    /\ ~aborted
    /\ \E o \in DoGetDataTxVector(stations[l], m_thresholds, choosenMCS, now,
                                  allowedWidth, Cfg) :
          /\ stations' = [stations EXCEPT ![l] = o.station]
          /\ m_thresholds' = o.table
          /\ aborted' = o.aborted
          /\ selected' =
                IF o.aborted \/ o.ret.phase # "warmup" \/ o.ret.hit THEN selected
                ELSE [selected EXCEPT ![l] =
                        [qualified |-> AnyQualifies(stations[l], m_thresholds,
                                                    o.ret.channelWidth, Cfg),
                         est |-> GetLastObservedSnr(stations[l], o.ret.width, o.ret.nss)]]
          /\ ret' = IF o.aborted THEN NoRet
                    ELSE IF o.ret.phase # "warmup" THEN [o.ret EXCEPT !.link = l]
                    ELSE [o.ret EXCEPT !.link = l,
                                       !.qualified = selected'[l].qualified,
                                       !.est = selected'[l].est]
    /\ UNCHANGED <<cfgId, now, choosenMCS, warmLen, restVars>>

\* a report handler ran for link l with one of the outcomes in outs; a
\* final failure forgets the selection
Report(l, outs, final) ==
    /\ ~aborted
    /\ \E o \in outs :
          /\ Len(o.hist) <= MaxHist
          /\ stations' = [stations EXCEPT ![l] = o.station]
          /\ choosenMCS' = o.hist
          /\ warmLen' = IF IsWarmup(now) THEN Len(o.hist) ELSE warmLen
          /\ aborted' = o.aborted
    /\ selected' = IF final THEN [selected EXCEPT ![l] = NoSelection] ELSE selected
    /\ ret' = NoRet
    /\ UNCHANGED <<cfgId, now, m_thresholds, restVars>>

ReportRtsOk(l, rtsSnr) ==
    Report(l, DoReportRtsOk(stations[l], choosenMCS, rtsSnr, Cfg), FALSE)

ReportDataOk(l, dataSnr, dataChannelWidth, dataNss) ==
    Report(l, DoReportDataOk(stations[l], choosenMCS, dataSnr, dataChannelWidth,
                             dataNss, Cfg), FALSE)

ReportAmpduTxStatus(l, nSuccessfulMpdus, nFailedMpdus, dataSnr, dataChannelWidth, dataNss) ==
    Report(l, DoReportAmpduTxStatus(stations[l], choosenMCS, nSuccessfulMpdus,
                                    nFailedMpdus, dataSnr, dataChannelWidth, dataNss, Cfg),
           FALSE)

ReportFinalRtsFailed(l) ==
    Report(l, DoReportFinalRtsFailed(stations[l], choosenMCS, Cfg), TRUE)

ReportFinalDataFailed(l) ==
    Report(l, DoReportFinalDataFailed(stations[l], choosenMCS, Cfg), TRUE)

Next ==
    \/ Tick
    \/ \E l \in Links, w \in Widths : GetDataTxVector(l, w)
    \/ \E l \in Links, snr \in Snrs : ReportRtsOk(l, snr)
    \/ \E l \in Links, snr \in Snrs, w \in Widths, nss \in Streams :
          ReportDataOk(l, snr, w, nss)
    \/ \E l \in Links, nOk \in 0..MaxMpdus, nFail \in 0..1, snr \in Snrs,
          w \in Widths, nss \in Streams :
          /\ nOk + nFail >= 1
          /\ ReportAmpduTxStatus(l, nOk, nFail, snr, w, nss)
    \/ \E l \in Links : ReportFinalRtsFailed(l)
    \/ \E l \in Links : ReportFinalDataFailed(l)

Spec == Init /\ [][Next]_vars

SpecLinks == InitLinks /\ [][Next]_vars

----------------------------------------------------------------------------
(* The control vectors: a manager built with either value of the attribute *)
(* "autoMCS", asked for RTS vectors between the reports and data requests  *)

\* the 5 GHz HE link and the 2.4 GHz non-HT link
RtsConfigs == {1, Len(Configs)}

InitRts == InitWith(RtsConfigs, BOOLEAN)

GetRtsTxVector(l) ==
    /\ ~aborted
    /\ \E o \in DoGetRtsTxVector(stations[l], m_thresholds, m_autoMCS, Cfg) :
          /\ m_thresholds' = o.table
          /\ aborted' = o.aborted
          /\ ret' = IF o.aborted THEN NoRet ELSE [o.ret EXCEPT !.link = l]
    /\ UNCHANGED <<cfgId, now, stations, choosenMCS, warmLen, selected, restVars>>

NextRts ==
    \/ Tick
    \/ \E l \in Links, w \in Widths : GetDataTxVector(l, w)
    \/ \E l \in Links, snr \in Snrs : ReportRtsOk(l, snr)
    \/ \E l \in Links, snr \in Snrs, w \in Widths, nss \in Streams :
          ReportDataOk(l, snr, w, nss)
    \/ \E l \in Links : ReportFinalRtsFailed(l)
    \/ \E l \in Links : GetRtsTxVector(l)

SpecRts == InitRts /\ [][NextRts]_vars

----------------------------------------------------------------------------
(* The threshold table on its own: a device whose capabilities change at   *)
(* run time, and lookups for any mode, NSS and width                       *)

LookupModes ==
    {Mode("OFDM", 0), Mode("OFDM", 2), Mode("HT", 0), Mode("HT", 8),
     Mode("VHT", 0), Mode("VHT", 9), Mode("HE", 0), Mode("HE", 2), Mode("HE", 3)}
LookupStreams == 1..2
LookupWidths == {20, 40, 80, 160}

\* the manager is constructed with an empty table
InitTable ==
    /\ cfgId \in DeviceConfigs
    /\ m_autoMCS = TRUE
    /\ wifiNodes = <<>>
    /\ nodeRxPower = <<>>
    /\ NoScenario
    /\ now = 0
    /\ stations = [l \in Configs[cfgId].links |-> Reset(Configs[cfgId])]
    /\ m_thresholds = <<>>
    /\ choosenMCS = <<>>
    /\ warmLen = 0
    /\ selected = [l \in Configs[cfgId].links |-> NoSelection]
    /\ ret = NoRet
    /\ aborted = FALSE

\* AutoMcsWifiManager::DoInitialize
DoInitialize ==
    /\ ~aborted
    /\ ret.op = "none"
    /\ m_thresholds' = BuildSnrThresholds(m_thresholds, Cfg)
    /\ ret' = [op |-> "init"]
    /\ UNCHANGED <<cfgId, now, stations, choosenMCS, warmLen, selected, aborted, restVars>>

\* the PHY is given another channel width, MCS list or number of streams
SetCapabilities(id) ==
    /\ ~aborted
    /\ ret.op # "none"
    /\ id # cfgId
    /\ cfgId' = id
    /\ ret' = [op |-> "set"]
    /\ UNCHANGED <<now, stations, m_thresholds, choosenMCS, warmLen, selected, aborted, restVars>>

\* GetSnrThreshold(txVector) for a vector of the given mode, NSS and width
Lookup(mode, nss, width) ==
    /\ ~aborted
    /\ ret.op # "none"
    /\ \E o \in GetSnrThreshold(m_thresholds, mode, nss, width, Cfg) :
          /\ m_thresholds' = o.table
          /\ aborted' = o.fatal
          /\ ret' = [op |-> "lookup", mode |-> mode, nss |-> nss, width |-> width,
                     snr |-> o.snr, rebuilds |-> o.rebuilt]
    /\ UNCHANGED <<cfgId, now, stations, choosenMCS, warmLen, selected, restVars>>

NextTable ==
    \/ DoInitialize
    \/ \E id \in DeviceConfigs : SetCapabilities(id)
    \/ \E mode \in LookupModes, nss \in LookupStreams, width \in LookupWidths :
          Lookup(mode, nss, width)

SpecTable == InitTable /\ [][NextTable]_vars

----------------------------------------------------------------------------
(* The propagation model on its own: the access points of BSS 0 and of     *)
(* BSS 1 placed anywhere, with or without building information             *)

InitRxPower ==
    /\ cfgId = 1
    /\ now = 0
    /\ stations = <<>>
    /\ m_thresholds = <<>>
    /\ choosenMCS = <<>>
    /\ warmLen = 0
    /\ selected = <<>>
    /\ ret = NoRet
    /\ aborted = FALSE
    /\ m_autoMCS = TRUE
    /\ NoScenario
    /\ \E a, b \in Points, aInfo, bInfo \in BOOLEAN, txPower \in {16000, 20000} :
          wifiNodes = <<[position |-> a, info |-> aInfo, bss |-> 0, txPower |-> txPower],
                        [position |-> b, info |-> bInfo, bss |-> 1, txPower |-> txPower]>>
    /\ nodeRxPower = <<>>

\* the channel asks the model for the power node rx receives from node tx
CalcRxPower(tx, rx, frequency) ==
    /\ \E power \in DoCalcRxPower(wifiNodes[tx].txPower, wifiNodes[tx], wifiNodes[rx],
                                   frequency) :
          ret' = [op |-> "rxpower", tx |-> tx, rx |-> rx, frequency |-> frequency,
                  power |-> power]
    /\ UNCHANGED <<cfgId, now, stations, m_thresholds, choosenMCS, warmLen, selected,
                   aborted, restVars>>

\* GetRxPower(propModel) with a model created with the default frequency
GetRxPower ==
    /\ LET averages == NodeRxPower(wifiNodes, 2437)
       IN  nodeRxPower' \in RxPowerMatrices(averages, DOMAIN averages)
    /\ ret' = NoRet
    /\ UNCHANGED <<cfgId, now, stations, m_thresholds, choosenMCS, warmLen, selected,
                   aborted, m_autoMCS, wifiNodes, scenarioVars>>

NextRxPower ==
    \/ \E tx, rx \in DOMAIN wifiNodes, frequency \in DOMAIN FrequencyLoss :
          tx # rx /\ CalcRxPower(tx, rx, frequency)
    \/ GetRxPower

SpecRxPower == InitRxPower /\ [][NextRxPower]_vars

----------------------------------------------------------------------------
(* The three programs: the measurement loop, the action callback and, in   *)
(* single-sta-single-link.cc, the AiWifiManager.  Times are in ms, except  *)
(* the clock now, in seconds.                                              *)

N_BSS == 4
pktSize == 1500
MaxPkts == 2

\* what the measurement loop and the action callback leave alone
managerVars == <<cfgId, stations, m_thresholds, choosenMCS, warmLen, selected, m_autoMCS>>

\* HePhy::GetNonHtReferenceRate(mcs) / 1e6
GetNonHtReferenceRate(mcs) ==
    CASE mcs = 0 -> 6
      [] mcs = 1 -> 12
      [] mcs = 2 -> 18
      [] mcs = 3 -> 24
      [] mcs = 4 -> 36
      [] mcs = 5 -> 48
      [] OTHER -> 54

\* Simulator::Schedule: the event runs after the events of its time that
\* were scheduled before it
Schedule(evs, time, handler) ==
    SelectSeq(evs, LAMBDA e : e.time <= time)
        \o <<[time |-> time, handler |-> handler]>>
        \o SelectSeq(evs, LAMBDA e : e.time > time)

\* multi-bss.cc with apNodeCount = 4 and one station per BSS: the access
\* points (AP 1 to 3 at their fixed places) and then the stations, each in
\* the room of its BSS, with the CCA threshold and the power of the
\* configuration file
ScenarioNodes ==
    LET Node(p, b) == [position |-> p, info |-> TRUE, bss |-> b, txPower |-> 20000,
                       cca |-> -82, minRssi |-> -82]
    IN  <<Node(<<25, 25, 3>>, 0), Node(<<75, 25, 3>>, 1), Node(<<25, 75, 3>>, 2),
          Node(<<75, 75, 3>>, 3), Node(<<35, 25, 3>>, 0), Node(<<76, 25, 3>>, 1),
          Node(<<26, 75, 3>>, 2), Node(<<76, 75, 3>>, 3)>>

\* multi-bss.cc run with apNodes=3 and one station per BSS: three access
\* points and the stations of BSS 0, 1 and 2 (i % apNodeCount)
ThreeApNodes ==
    SubSeq(ScenarioNodes, 1, 3) \o <<ScenarioNodes[5], ScenarioNodes[6], ScenarioNodes[7]>>

\* main() up to Simulator::Run(): the configuration is read, the two first
\* events and the stop are scheduled, the manager of the station gets its
\* modes (frequency in units of 100 MHz)
InitScenario ==
    /\ cfgId = 1
    /\ now = 0
    /\ stations = <<>>
    /\ m_thresholds = <<>>
    /\ choosenMCS = <<>>
    /\ warmLen = 0
    /\ selected = <<>>
    /\ ret = NoRet
    /\ aborted = FALSE
    /\ m_autoMCS = TRUE
    /\ nodeRxPower = <<>>
    /\ program \in {"apb", "single-sta-single-link", "multi-bss"}
    /\ measStartTime \in {1000, 2000}
    /\ measInterval \in {0, 1000, 2000}
    /\ \E stopTime \in {2000, 4000} :
          events = Schedule(Schedule(Schedule(<<>>, measStartTime, "StartMeasurement"),
                                     measStartTime, "GenerateMeasurement"),
                            IF program = "apb" THEN stopTime ELSE stopTime + 1000, "Stop")
    /\ measurements = {}
    /\ aiManager = "nullptr"
    /\ IF program = "single-sta-single-link"
       THEN \E mcs \in {1, 7}, frequency \in {24, 50, 60} :
               /\ m_dataMode = WifiMode("HeMcs", mcs)
               /\ m_ctlMode =
                     CASE frequency = 60 -> WifiMode("HeMcs", mcs)
                       [] frequency = 50 -> WifiMode("OfdmRate", GetNonHtReferenceRate(mcs))
                       [] OTHER -> WifiMode("ErpOfdmRate", GetNonHtReferenceRate(mcs))
       ELSE /\ m_dataMode = WifiMode("OfdmRate", 6)
            /\ m_ctlMode = WifiMode("OfdmRate", 6)
    /\ wifiNodes \in IF program = "multi-bss" THEN {ScenarioNodes, ThreeApNodes} ELSE {<<>>}
    /\ wifiTxStats =
          [i \in 0..((CASE program = "multi-bss" -> Len(wifiNodes)
                        [] program = "single-sta-single-link" -> 2
                        [] OTHER -> 0) - 1) |-> [succ |-> 0, fail |-> 0]]
    /\ totalSucc = 0
    /\ totalFail = 0
    /\ stepSuccPerNode = <<>>
    /\ stepSuccPerNodeInitialized = FALSE
    /\ succAtLastMeasurement = <<>>

\* DataProcessor::StartMeasurement, the first event
StartMeasurement ==
    /\ ~aborted
    /\ events # <<>>
    /\ events[1].handler = "StartMeasurement"
    /\ now' = events[1].time \div 1000
    /\ events' = Tail(events)
    /\ ret' = NoRet
    /\ UNCHANGED <<managerVars, aborted, wifiNodes, nodeRxPower, program, measStartTime,
                   measInterval, measurements, aiManager, m_dataMode, m_ctlMode,
                   wifiTxStats, totalSucc, totalFail, stepSuccPerNode,
                   stepSuccPerNodeInitialized,
                   succAtLastMeasurement>>

\* the event of Simulator::Stop: Run() returns and Destroy() drops what is
\* still scheduled
Stop ==
    /\ ~aborted
    /\ events # <<>>
    /\ events[1].handler = "Stop"
    /\ now' = events[1].time \div 1000
    /\ events' = <<>>
    /\ ret' = NoRet
    /\ UNCHANGED <<managerVars, aborted, wifiNodes, nodeRxPower, program, measStartTime,
                   measInterval, measurements, aiManager, m_dataMode, m_ctlMode,
                   wifiTxStats, totalSucc, totalFail, stepSuccPerNode,
                   stepSuccPerNodeInitialized,
                   succAtLastMeasurement>>

\* WifiTxStatsHelper, started at 1 s: a packet of the node was acknowledged
\* or dropped
NotifyTx(node, ok) ==
    /\ ~aborted
    /\ events # <<>>
    /\ now >= 1
    /\ node \in DOMAIN wifiTxStats
    /\ wifiTxStats[node].succ + wifiTxStats[node].fail < MaxPkts
    /\ wifiTxStats' =
          [wifiTxStats EXCEPT ![node] =
              IF ok THEN [@ EXCEPT !.succ = @ + 1] ELSE [@ EXCEPT !.fail = @ + 1]]
    /\ ret' = NoRet
    /\ UNCHANGED <<managerVars, now, aborted, wifiNodes, nodeRxPower, program,
                   measStartTime, measInterval, events, measurements, aiManager,
                   m_dataMode, m_ctlMode, totalSucc, totalFail, stepSuccPerNode,
                   stepSuccPerNodeInitialized,
                   succAtLastMeasurement>>

\* a measurement loop that schedules its next run twice
GenerateMeasurementApbTwice ==
    /\ ~aborted
    /\ program = "apb"
    /\ events # <<>>
    /\ events[1].handler = "GenerateMeasurement"
    /\ now' = events[1].time \div 1000
    /\ \E a, b \in {1, 10} :
          measurements' =
              {[name |-> "calculator", id |-> 0, time |-> events[1].time,
                entries |-> <<[key |-> "addend::a", value |-> a],
                              [key |-> "addend::b", value |-> b]>>]}
    /\ events' = Schedule(Schedule(Tail(events), events[1].time + measInterval,
                                   "GenerateMeasurement"),
                          events[1].time + measInterval, "GenerateMeasurement")
    /\ ret' = [op |-> "measurement"]
    /\ UNCHANGED <<managerVars, aborted, wifiNodes, nodeRxPower, program, measStartTime,
                   measInterval, aiManager, m_dataMode, m_ctlMode, wifiTxStats, totalSucc,
                   totalFail, stepSuccPerNode, stepSuccPerNodeInitialized,
                   succAtLastMeasurement>>

\* apb.cc, GenerateMeasurement: two addends drawn from 1..10 (here the two
\* ends of the range)
GenerateMeasurementApb ==
    /\ ~aborted
    /\ program = "apb"
    /\ events # <<>>
    /\ events[1].handler = "GenerateMeasurement"
    /\ now' = events[1].time \div 1000
    /\ \E a, b \in {1, 10} :
          measurements' =
              {[name |-> "calculator", id |-> 0, time |-> events[1].time,
                entries |-> <<[key |-> "addend::a", value |-> a],
                              [key |-> "addend::b", value |-> b]>>]}
    /\ events' = Schedule(Tail(events), events[1].time + measInterval, "GenerateMeasurement")
    /\ ret' = [op |-> "measurement"]
    /\ UNCHANGED <<managerVars, aborted, wifiNodes, nodeRxPower, program, measStartTime,
                   measInterval, aiManager, m_dataMode, m_ctlMode, wifiTxStats, totalSucc,
                   totalFail, stepSuccPerNode, stepSuccPerNodeInitialized,
                   succAtLastMeasurement>>

\* single-sta-single-link.cc, GenerateMeasurement: the counts of the
\* station (node 0) since the previous run (the counts of the helper only
\* grow, so the unsigned differences do not wrap)
GenerateMeasurementSingleSta ==
    /\ ~aborted
    /\ program = "single-sta-single-link"
    /\ events # <<>>
    /\ events[1].handler = "GenerateMeasurement"
    /\ now' = events[1].time \div 1000
    /\ aiManager' = "sta"
    /\ measurements' =
          {[name |-> "TsRateControl", id |-> 0, time |-> events[1].time,
            entries |-> <<[key |-> "meas::succ",
                           value |-> wifiTxStats[0].succ - totalSucc],
                          [key |-> "meas::fail",
                           value |-> wifiTxStats[0].fail - totalFail]>>]}
    /\ totalSucc' = wifiTxStats[0].succ
    /\ totalFail' = wifiTxStats[0].fail
    /\ events' = Schedule(Tail(events), events[1].time + measInterval, "GenerateMeasurement")
    /\ ret' = [op |-> "measurement"]
    /\ UNCHANGED <<managerVars, aborted, wifiNodes, nodeRxPower, program, measStartTime,
                   measInterval, m_dataMode, m_ctlMode, wifiTxStats, stepSuccPerNode,
                   stepSuccPerNodeInitialized,
                   succAtLastMeasurement>>

\* multi-bss.cc, GenerateMeasurement.  Values: received power in 0.001 dBm,
\* throughput in bit per step, positions in half metres; nodeMcs is never
\* written, so nodeMcs[i] is 0.  The access delay of node N_BSS is averaged
\* over the records of the helper when the node has more than one packet
\* in the step: a value of the traffic, here 0 or 1 ms.  The count of a
\* step is at most the total of the helper, so the unsigned difference
\* does not wrap.
GenerateMeasurement ==
    /\ ~aborted
    /\ program = "multi-bss"
    /\ events # <<>>
    /\ events[1].handler = "GenerateMeasurement"
    /\ now' = events[1].time \div 1000
    /\ LET averages == NodeRxPower(wifiNodes, 2437)
       IN  nodeRxPower' \in RxPowerMatrices(averages, DOMAIN averages)
    /\ stepSuccPerNode' =
          IF ~stepSuccPerNodeInitialized
          THEN [i \in 0..(Len(wifiNodes) - 1) |-> 0]
          ELSE [i \in 0..(Len(wifiNodes) - 1) |->
                   IF i < N_BSS THEN stepSuccPerNode[i]
                   ELSE wifiTxStats[i].succ - stepSuccPerNode[i]]
    /\ stepSuccPerNodeInitialized' = TRUE
    /\ succAtLastMeasurement' = [i \in DOMAIN wifiTxStats |-> wifiTxStats[i].succ]
    /\ \E vrAccessDelayMs \in IF stepSuccPerNodeInitialized /\ stepSuccPerNode'[N_BSS] > 1
                              THEN {0, 1} ELSE {measInterval} :
          LET ids == 0..(Len(wifiNodes) - 1)
              Meas(id, entries) ==
                  [name |-> "MultiBss", id |-> id, time |-> events[1].time,
                   entries |-> entries]
          IN  measurements' =
                  {Meas((((j \div N_BSS) * 32) % 256) + (i % 32),
                        <<[key |-> "Cpp2Py::RxPowerDbmMatrix",
                           value |-> nodeRxPower'[<<i + 1, j + 1>>]]>>) :
                     <<i, j>> \in {q \in ids \X ids :
                                    q[1] # q[2] /\ wifiNodes[q[2] + 1].bss = 0}}
                  \cup {Meas(i \div N_BSS, <<[key |-> "Cpp2Py::McsIndex", value |-> 0]>>) :
                          i \in {k \in ids : wifiNodes[k + 1].bss = 0}}
                  \cup {Meas(i, <<[key |-> "Cpp2Py::UplinkThptMbps",
                                   value |-> stepSuccPerNode'[i] * pktSize * 8]>>) :
                          i \in {k \in ids : k >= N_BSS}}
                  \cup {Meas(N_BSS, <<[key |-> "Cpp2Py::AccessDelayMs",
                                       value |-> vrAccessDelayMs]>>)}
                  \cup {Meas(i, <<[key |-> "Cpp2Py::NodeX",
                                   value |-> wifiNodes[i + 1].position[1]],
                                  [key |-> "Cpp2Py::NodeY",
                                   value |-> wifiNodes[i + 1].position[2]]>>) : i \in ids}
    /\ events' = Schedule(Tail(events), events[1].time + measInterval, "GenerateMeasurement")
    /\ ret' = [op |-> "measurement"]
    /\ UNCHANGED <<managerVars, aborted, wifiNodes, program, measStartTime, measInterval,
                   aiManager, m_dataMode, m_ctlMode, wifiTxStats, totalSucc, totalFail>>

\* The action callbacks.  The data processor polls for an action after it
\* has sent measurements, and hands the callback the action, or null when
\* none came in time; an action is <<>> for null, <<value>> otherwise.

\* apb.cc, RecvAction: the sum is printed
RecvActionApb(action) ==
    /\ ~aborted
    /\ program = "apb"
    /\ events # <<>>
    /\ measurements # {}
    /\ ret' = [op |-> "action", action |-> action]
    /\ UNCHANGED <<managerVars, now, aborted, wifiNodes, nodeRxPower, scenarioVars>>

\* a callback that falls back to the default modes when no action came
RecvActionSingleStaResetting(action) ==
    /\ ~aborted
    /\ program = "single-sta-single-link"
    /\ events # <<>>
    /\ measurements # {}
    /\ ret' = [op |-> "action", action |-> action]
    /\ IF action = <<>>
       THEN /\ m_dataMode' = WifiMode("OfdmRate", 6)
            /\ m_ctlMode' = WifiMode("OfdmRate", 6)
            /\ UNCHANGED aborted
       ELSE IF ~HeModeExists(action[1])
       THEN aborted' = TRUE /\ UNCHANGED <<m_dataMode, m_ctlMode>>
       ELSE /\ m_dataMode' = WifiMode("HeMcs", action[1])
            /\ m_ctlMode' = WifiMode("OfdmRate", GetNonHtReferenceRate(action[1]))
            /\ UNCHANGED aborted
    /\ UNCHANGED <<managerVars, now, wifiNodes, nodeRxPower, program, measStartTime,
                   measInterval, events, measurements, aiManager, wifiTxStats, totalSucc,
                   totalFail, stepSuccPerNode, stepSuccPerNodeInitialized,
                   succAtLastMeasurement>>

\* a callback that sends RTS at the HE mode, as main() does in the 6 GHz band
RecvActionSingleStaHeControl(action) ==
    /\ ~aborted
    /\ program = "single-sta-single-link"
    /\ events # <<>>
    /\ measurements # {}
    /\ ret' = [op |-> "action", action |-> action]
    /\ IF action = <<>>
       THEN UNCHANGED <<m_dataMode, m_ctlMode, aborted>>
       ELSE IF ~HeModeExists(action[1])
       THEN aborted' = TRUE /\ UNCHANGED <<m_dataMode, m_ctlMode>>
       ELSE /\ m_dataMode' = WifiMode("HeMcs", action[1])
            /\ m_ctlMode' = WifiMode("HeMcs", action[1])
            /\ UNCHANGED aborted
    /\ UNCHANGED <<managerVars, now, wifiNodes, nodeRxPower, program, measStartTime,
                   measInterval, events, measurements, aiManager, wifiTxStats, totalSucc,
                   totalFail, stepSuccPerNode, stepSuccPerNodeInitialized,
                   succAtLastMeasurement>>

\* single-sta-single-link.cc, RecvAction: aiManager points to the manager
\* of the station since the first measurement
RecvActionSingleSta(action) ==
    /\ ~aborted
    /\ program = "single-sta-single-link"
    /\ events # <<>>
    /\ measurements # {}
    /\ ret' = [op |-> "action", action |-> action]
    /\ IF action = <<>>
       THEN UNCHANGED <<m_dataMode, m_ctlMode, aborted>>
       ELSE IF ~HeModeExists(action[1])
       THEN aborted' = TRUE /\ UNCHANGED <<m_dataMode, m_ctlMode>>
       ELSE /\ m_dataMode' = WifiMode("HeMcs", action[1])
            /\ m_ctlMode' = WifiMode("OfdmRate", GetNonHtReferenceRate(action[1]))
            /\ UNCHANGED aborted
    /\ UNCHANGED <<managerVars, now, wifiNodes, nodeRxPower, program, measStartTime,
                   measInterval, events, measurements, aiManager, wifiTxStats, totalSucc,
                   totalFail, stepSuccPerNode, stepSuccPerNodeInitialized,
                   succAtLastMeasurement>>

\* multi-bss.cc, RecvAction: the nodes 0, N_BSS, 2 * N_BSS, ... get the new
\* CCA threshold and a new preamble detection model.  NS_ASSERT ends the run
\* at the first of them outside BSS 0 in a build with assertions.
RecvAction(action) ==
    /\ ~aborted
    /\ program = "multi-bss"
    /\ events # <<>>
    /\ measurements # {}
    /\ ret' = [op |-> "action", action |-> action]
    /\ IF action = <<>>
       THEN UNCHANGED <<wifiNodes, aborted>>
       ELSE \E asserting \in BOOLEAN :
               LET ids == {i \in 0..(Len(wifiNodes) - 1) : i % N_BSS = 0}
                   bad == {i \in ids : wifiNodes[i + 1].bss # 0}
                   done == IF asserting THEN {i \in ids : \A b \in bad : i < b} ELSE ids
               IN  /\ wifiNodes' =
                         [k \in 1..Len(wifiNodes) |->
                             IF (k - 1) \in done
                             THEN [wifiNodes[k] EXCEPT !.cca = action[1],
                                                       !.minRssi = action[1]]
                             ELSE wifiNodes[k]]
                   /\ aborted' = (asserting /\ bad # {})
    /\ UNCHANGED <<managerVars, now, nodeRxPower, scenarioVars>>

\* AiWifiManager::DoGetDataTxVector
AiDoGetDataTxVector(allowedWidth) ==
    /\ ~aborted
    /\ program = "single-sta-single-link"
    /\ events # <<>>
    /\ ret' = [op |-> "aidata", mode |-> m_dataMode,
               nss |-> IF m_dataMode.cls = "HT" THEN 1 + (m_dataMode.value \div 8)
                       ELSE Min(Configs[cfgId].maxTxStreams, Configs[cfgId].staStreams),
               width |-> GetTxBandwidth(m_dataMode,
                                        Min(allowedWidth, Configs[cfgId].staWidth),
                                        Configs[cfgId]),
               gi |-> CASE m_dataMode.cls = "HE" -> Configs[cfgId].staGi
                        [] m_dataMode.cls \in {"HT", "VHT"} ->
                              IF Configs[cfgId].staShortGi THEN 400 ELSE 800
                        [] OTHER -> 800]
    /\ UNCHANGED <<managerVars, now, aborted, wifiNodes, nodeRxPower, scenarioVars>>

\* AiWifiManager::DoGetRtsTxVector
AiDoGetRtsTxVector ==
    /\ ~aborted
    /\ program = "single-sta-single-link"
    /\ events # <<>>
    /\ ret' = [op |-> "airts", mode |-> m_ctlMode, nss |-> 1,
               width |-> GetTxBandwidth(m_ctlMode, Configs[cfgId].staWidth, Configs[cfgId]),
               gi |-> CASE m_ctlMode.cls = "HE" -> Configs[cfgId].staGi
                        [] m_ctlMode.cls \in {"HT", "VHT"} ->
                              IF Configs[cfgId].staShortGi THEN 400 ELSE 800
                        [] OTHER -> 800]
    /\ UNCHANGED <<managerVars, now, aborted, wifiNodes, nodeRxPower, scenarioVars>>

\* AiWifiManager::DoReportRxOk, DoReportRtsFailed, DoReportDataFailed,
\* DoReportRtsOk, DoReportDataOk, DoReportFinalRtsFailed and
\* DoReportFinalDataFailed: empty bodies
AiDoReport ==
    /\ ~aborted
    /\ program = "single-sta-single-link"
    /\ events # <<>>
    /\ ret' = NoRet
    /\ UNCHANGED <<managerVars, now, aborted, wifiNodes, nodeRxPower, scenarioVars>>

NextScenario ==
    \/ StartMeasurement
    \/ Stop
    \/ GenerateMeasurementApb
    \/ GenerateMeasurementSingleSta
    \/ GenerateMeasurement
    \/ \E action \in {<<>>, <<3>>} : RecvActionApb(action)
    \/ \E action \in {<<>>, <<0>>, <<5>>, <<11>>, <<12>>} : RecvActionSingleSta(action)
    \/ \E action \in {<<>>, <<-82>>, <<-62>>} : RecvAction(action)
    \/ \E allowedWidth \in {20, 40} : AiDoGetDataTxVector(allowedWidth)
    \/ AiDoGetRtsTxVector
    \/ AiDoReport
    \/ \E node \in (IF program = "multi-bss" THEN {N_BSS, N_BSS + 1} ELSE {0}),
          ok \in BOOLEAN : NotifyTx(node, ok)

SpecScenario == InitScenario /\ [][NextScenario]_vars

TypeOK ==
    /\ cfgId \in 1..Len(Configs)
    /\ now \in 0..MaxTime
    /\ Len(choosenMCS) <= MaxHist
    /\ warmLen \in 0..Len(choosenMCS)
    /\ aborted \in BOOLEAN

----------------------------------------------------------------------------
(* Properties of the Warm-up phase *)

\* the last handler was a data request served in the Warm-up phase
WarmupReturned == ret.op = "data" /\ ret.phase = "warmup"

\* the last handler was a data request served in the Converged phase
ConvergedReturned == ret.op = "data" /\ ret.phase = "converged"

\* the last handler was a data request for link l with allowed width w
Served(l, w) ==
    ret.op = "data" /\ ret.link = l /\ ret.channelWidth = Min(Cfg.staWidth, w)

\* threshold of the returned vector strictly below the estimate it was selected with
ReturnedClears ==
    TableSnr(m_thresholds, ret.mode, ret.nss, ret.width) * ret.est.den < ret.est.num

\* C1 as stated: every Warm-up data request returns a mode whose threshold
\* (table entry for its mode, NSS and width) is strictly below the SNR
\* estimate for that width and NSS that was used to select it.
C1_FeasibleAlways == WarmupReturned => ReturnedClears

\* C1 as amended: the same, for every Warm-up data request whose selecting
\* search (its own, or on a cache hit the one that filled the cache) had at
\* least one qualifying candidate; with none the default mode is returned.
C1_FeasibleWhenQualified == WarmupReturned /\ ret.qualified => ReturnedClears

\* a search picked a mode above the lowest, and a later request reused it
C1_Witness ==
    /\ WarmupReturned /\ ret.qualified /\ ret.hit
    /\ ret.mode = Mode("HE", 1)

\* the index of the candidate the claim names: highest data rate among the
\* qualifying ones, the first of them in enumeration order
Fastest(cands, qualifying) ==
    CHOOSE i \in qualifying :
        \A j \in qualifying :
            LET ri == GetDataRate(cands[i].mode, cands[i].width, cands[i].gi, cands[i].nss)
                rj == GetDataRate(cands[j].mode, cands[j].width, cands[j].gi, cands[j].nss)
            IN  rj < ri \/ (rj = ri /\ i <= j)

\* C2: a Warm-up search (cache miss) with a qualifying candidate returns the
\* qualifying candidate of highest data rate, the first in enumeration order
\* among equals, and records it in m_lastMode / m_lastNss of the link.
C2_FastestQualifying ==
    [][\A l \in Links, w \in Widths :
         (Served(l, w)' /\ ret'.phase = "warmup" /\ ~ret'.hit /\ GetDataTxVector(l, w)) =>
            LET cands == Candidates(ret'.channelWidth, Cfg)
                qualifying == Qualifying(stations[l], m_thresholds, ret'.channelWidth, Cfg)
            IN  qualifying # {} =>
                  LET best == cands[Fastest(cands, qualifying)]
                  IN  /\ ret'.mode = best.mode
                      /\ ret'.nss = best.nss
                      /\ stations'[l].m_lastMode = best.mode
                      /\ stations'[l].m_lastNss = best.nss]_vars

\* a search returned HE MCS 0 with two streams although HE MCS 1 with one
\* stream, of equal data rate and later in the enumeration, also qualified
C2_Witness ==
    /\ WarmupReturned /\ ~ret.hit /\ ret.qualified
    /\ ret.mode = Mode("HE", 0) /\ ret.nss = 2
    /\ \E i \in Qualifying(stations[ret.link], m_thresholds, ret.channelWidth, Cfg) :
          LET cand == Candidates(ret.channelWidth, Cfg)[i]
          IN  cand.mode = Mode("HE", 1) /\ cand.nss = 1

\* C3: a Warm-up request is answered from the cache exactly when the cached
\* SNR is not the sentinel, equals the observed SNR and the requested width
\* equals m_lastChannelWidth; then it returns m_lastMode / m_lastNss, makes
\* no threshold lookup and leaves the cached fields alone; otherwise every
\* candidate is looked up and the cache is refilled from the observation.
C3_CacheHit ==
    [][\A l \in Links, w \in Widths :
         (Served(l, w)' /\ ret'.phase = "warmup" /\ GetDataTxVector(l, w)) =>
            LET st == stations[l]
                cw == Min(Cfg.staWidth, w)
                cached == /\ st.m_lastSnrCached # CACHE_INITIAL_VALUE
                          /\ st.m_lastSnrObserved = st.m_lastSnrCached
                          /\ cw = st.m_lastChannelWidth
            IN  /\ cached =>
                     /\ ret'.hit
                     /\ ret'.mode = st.m_lastMode /\ ret'.nss = st.m_lastNss
                     /\ ret'.lookups = 0 /\ ret'.rebuilds = 0
                     /\ stations'[l] = st
                /\ ~cached =>
                     /\ ~ret'.hit
                     /\ ret'.lookups = Len(Candidates(cw, Cfg))
                     /\ stations'[l].m_lastSnrCached = st.m_lastSnrObserved]_vars

\* a request was answered from the cache with a decision other than the default
C3_Witness ==
    /\ WarmupReturned /\ ret.hit /\ ret.lookups = 0
    /\ ret.mode # GetDefaultModeForSta(Cfg)

\* C4: two consecutive Warm-up data requests for the same link and width,
\* with no report or reset in between, return the same mode and NSS.
C4_Idempotent ==
    [][\A l \in Links, w \in Widths :
         (/\ WarmupReturned /\ Served(l, w)
          /\ Served(l, w)' /\ ret'.phase = "warmup" /\ GetDataTxVector(l, w)) =>
            ret'.mode = ret.mode /\ ret'.nss = ret.nss]_vars

\* the second of two requests, after a first one that searched and changed
\* the decision of the link
C4_Witness ==
    /\ WarmupReturned /\ ret.hit /\ ret.qualified
    /\ ret.nss = 2

----------------------------------------------------------------------------
(* Properties of the phases and of the Converged phase *)

\* C5: the phase a data request is served in depends on the simulated time
\* only: Warm-up below 10 s, Converged from 10 s on, the boundary included;
\* time never decreases and only the clock moves it, so no report, reset or
\* request changes the phase and a Converged request is never followed by a
\* Warm-up one.
C5_PhaseByTime ==
    [][/\ now' >= now
       /\ now' # now => stations' = stations /\ choosenMCS' = choosenMCS /\ ret' = ret
       /\ ret.phase = "converged" => now >= WarmupSeconds /\ ret'.phase # "warmup"
       /\ \A l \in Links, w \in Widths :
            (Served(l, w)' /\ GetDataTxVector(l, w)) =>
               /\ ret'.time = now
               /\ now < WarmupSeconds => ret'.phase = "warmup"
               /\ now >= WarmupSeconds => ret'.phase = "converged"]_vars

\* a request made exactly at the threshold was served as Converged
C5_Witness == ConvergedReturned /\ ret.time = WarmupSeconds

\* m is the mean of the history rounded up to the nearest integer
IsMeanRoundedUp(m, hist) ==
    /\ Len(hist) > 0
    /\ m * Len(hist) >= Sum(hist, 1)
    /\ (m - 1) * Len(hist) < Sum(hist, 1)

\* C6: every Converged data request returns the HE mode whose MCS index is
\* the arithmetic mean of the entries of choosenMCS rounded up.
C6_ConvergedMean ==
    ConvergedReturned => ret.mode.cls = "HE" /\ IsMeanRoundedUp(ret.mode.idx, choosenMCS)

\* C7: if every entry appended to choosenMCS during Warm-up is the same MCS
\* index m, every data request served from the threshold on returns the HE
\* mode at MCS m, whatever was reported after the threshold.
C7_ConstantHistory ==
    (/\ ConvergedReturned
     /\ warmLen > 0
     /\ \A i \in 1..warmLen : choosenMCS[i] = choosenMCS[1]) =>
        ret.mode = Mode("HE", choosenMCS[1])

\* C8: a Converged data request makes no threshold lookup, rebuilds no
\* table and changes nothing of the link but m_lastChannelWidth, which
\* becomes the requested width.
C8_ConvergedNoSearch ==
    [][\A l \in Links, w \in Widths :
         (Served(l, w)' /\ now >= WarmupSeconds /\ GetDataTxVector(l, w)) =>
            /\ ret'.lookups = 0 /\ ret'.rebuilds = 0
            /\ m_thresholds' = m_thresholds
            /\ stations'[l] =
                 [stations[l] EXCEPT !.m_lastChannelWidth = Min(Cfg.staWidth, w)]]_vars

\* a Converged request was served for a link whose observation had changed
\* since its cached decision, and returned another mode than the cached one
C8_Witness ==
    /\ ConvergedReturned
    /\ stations[ret.link].m_lastSnrCached # CACHE_INITIAL_VALUE
    /\ stations[ret.link].m_lastSnrObserved # stations[ret.link].m_lastSnrCached
    /\ stations[ret.link].m_lastMode # ret.mode

\* the defaults of a link
Defaults(station) ==
    /\ station.m_lastSnrCached = CACHE_INITIAL_VALUE
    /\ station.m_lastMode = GetDefaultMode(Cfg)
    /\ station.m_lastNss = 1
    /\ station.m_lastChannelWidth = 0
    /\ station.m_lastSnrObserved = 0
    /\ station.m_lastChannelWidthObserved = 0
    /\ station.m_lastNssObserved = 1

\* C9: a final data or RTS failure puts the link back to its defaults
\* (cached SNR -100, default mode, NSS 1, observation cleared); the cached
\* SNR leaves the sentinel only by a Warm-up request for the link, and that
\* request is not a cache hit: it looks every candidate up.
C9_ResetForcesSearch ==
    [][\A l \in Links :
         /\ (ret'.op = "none" /\ (ReportFinalRtsFailed(l) \/ ReportFinalDataFailed(l))) =>
               Defaults(stations'[l])
         /\ stations[l].m_lastSnrCached = CACHE_INITIAL_VALUE =>
               /\ ret'.op = "data" /\ ret'.link = l /\ ret'.phase = "warmup" /\ ret' # ret =>
                     /\ ~ret'.hit
                     /\ ret'.lookups = Len(Candidates(ret'.channelWidth, Cfg))
               /\ stations'[l].m_lastSnrCached # CACHE_INITIAL_VALUE =>
                     ret'.op = "data" /\ ret'.link = l /\ ret'.phase = "warmup" /\ ~ret'.hit]_vars

\* a link that had reported successes was reset and its next Warm-up request
\* searched
C9_Witness ==
    /\ WarmupReturned /\ ~ret.hit /\ ret.lookups > 0
    /\ Len(choosenMCS) > 0
    /\ stations[ret.link].m_lastSnrObserved = 0
    /\ stations[ret.link].m_lastChannelWidthObserved = 0

\* the modes a data request for the link can return next, once a successful
\* transmission has been reported for it
ModesAfterDataOk(station, hist, snr, width, nss) ==
    UNION {{r.ret.mode : r \in {x \in DoGetDataTxVector(o.station, m_thresholds, o.hist,
                                                        now, width, Cfg) : ~x.aborted}}
           : o \in {y \in DoReportDataOk(station, hist, snr, width, nss, Cfg) : ~y.aborted}}

\* C10: in the Converged phase a final failure has no effect on selection:
\* the modes later data requests return are the same whether or not a
\* final-failure report for a link was inserted before the reports that
\* follow.
C10_ResetWithoutEffect ==
    (now >= WarmupSeconds /\ ~aborted) =>
        \A l \in Links, snr \in Snrs, w \in Widths, nss \in Streams :
            \A f \in DoReportFinalDataFailed(stations[l], choosenMCS, Cfg) :
                ModesAfterDataOk(f.station, f.hist, snr, w, nss)
                    = ModesAfterDataOk(stations[l], choosenMCS, snr, w, nss)

----------------------------------------------------------------------------
(* Properties of the reports and of the fallback of the search *)

\* what a link remembers of the last report
Observation(station) ==
    <<station.m_lastSnrObserved, station.m_lastChannelWidthObserved,
      station.m_lastNssObserved>>

\* the observations a handler leaves, over its outcomes
Observations(outs) == {Observation(o.station) : o \in outs}

\* C11: a report of a successful RTS, of a successful data frame or of an
\* A-MPDU status that carries an SNR of exactly 0 leaves m_lastSnrObserved,
\* m_lastChannelWidthObserved and m_lastNssObserved of the link unchanged:
\* a link holding a good observation retains it.
C11_ZeroSnrDiscarded ==
    ~aborted =>
        \A l \in Links :
            stations[l].m_lastSnrObserved # 0 =>
                LET kept == {Observation(stations[l])}
                IN  /\ \A w \in Widths, nss \in Streams :
                          Observations(DoReportDataOk(stations[l], choosenMCS, 0, w, nss, Cfg))
                              = kept
                    /\ \A w \in Widths, nss \in Streams, nOk \in 0..MaxMpdus :
                          Observations(DoReportAmpduTxStatus(stations[l], choosenMCS, nOk,
                                                             1, 0, w, nss, Cfg)) = kept
                    /\ Observations(DoReportRtsOk(stations[l], choosenMCS, 0, Cfg)) = kept

\* a Warm-up search of link l at allowed width w has just run and none of
\* its candidates qualified
SearchedInVain(l, w) ==
    /\ Served(l, w)' /\ ret'.phase = "warmup" /\ ~ret'.hit /\ ~ret'.qualified
    /\ GetDataTxVector(l, w)

\* C12 as stated: a Warm-up search without a qualifying candidate retains
\* the previous cached mode of the link: the request returns it and
\* m_lastMode / m_lastNss are what they were; with nothing cached it is a
\* default mode that is returned.
C12_PreviousRetained ==
    [][\A l \in Links, w \in Widths :
         SearchedInVain(l, w) =>
            IF stations[l].m_lastSnrCached # CACHE_INITIAL_VALUE
            THEN /\ ret'.mode = stations[l].m_lastMode
                 /\ ret'.nss = stations[l].m_lastNss
                 /\ stations'[l].m_lastMode = stations[l].m_lastMode
                 /\ stations'[l].m_lastNss = stations[l].m_lastNss
            ELSE ret'.mode \in {GetDefaultMode(Cfg), GetDefaultModeForSta(Cfg)}]_vars

\* C12 as amended: a Warm-up search without a qualifying candidate returns
\* the default mode for the station with one stream, whatever the link had
\* cached, and records it in m_lastMode / m_lastNss.
C12_DefaultWhenNoneQualifies ==
    [][\A l \in Links, w \in Widths :
         SearchedInVain(l, w) =>
            /\ ret'.mode = GetDefaultModeForSta(Cfg)
            /\ ret'.nss = 1
            /\ stations'[l].m_lastMode = ret'.mode
            /\ stations'[l].m_lastNss = 1]_vars

\* a search fell back to the default mode for a link that holds a good
\* observation and whose last reported success was sent at a higher MCS
C12_Witness ==
    /\ WarmupReturned /\ ~ret.hit /\ ~ret.qualified
    /\ ret.mode = GetDefaultModeForSta(Cfg)
    /\ stations[ret.link].m_lastSnrObserved > 0
    /\ Len(choosenMCS) > 0
    /\ choosenMCS[Len(choosenMCS)] = 2

----------------------------------------------------------------------------
(* Properties of the threshold table *)

\* GetSnrThreshold has just run for the key
LookedUp(mode, nss, width) ==
    /\ ret'.op = "lookup" /\ ret'.mode = mode /\ ret'.nss = nss /\ ret'.width = width
    /\ Lookup(mode, nss, width)

\* C13: a lookup of a key the table holds returns the stored threshold and
\* does not rebuild the table; for a missing key the table is rebuilt exactly
\* once and searched again; if the key is still missing the run is ended: no
\* threshold is returned.
C13_LookupOrFatal ==
    [][\A mode \in LookupModes, nss \in LookupStreams, width \in LookupWidths :
         LookedUp(mode, nss, width) =>
            LET it == FindThreshold(m_thresholds, mode, nss, width, 1)
                it2 == FindThreshold(m_thresholds', mode, nss, width, 1)
            IN  IF it # 0
                THEN /\ ~aborted'
                     /\ ret'.snr = m_thresholds[it].snr
                     /\ ret'.rebuilds = 0
                     /\ m_thresholds' = m_thresholds
                ELSE /\ ret'.rebuilds = 1
                     /\ IF it2 # 0
                        THEN ~aborted' /\ ret'.snr = m_thresholds'[it2].snr
                        ELSE aborted']_vars

\* the step built the table: DoInitialize, or a lookup that missed
Built == ret'.op = "init" \/ (ret'.op = "lookup" /\ ret'.rebuilds = 1)

SameKey(a, b) == a.mode = b.mode /\ a.nss = b.nss /\ a.width = b.width

NoDuplicateKeys(table) ==
    \A i \in 1..Len(table), j \in 1..Len(table) : SameKey(table[i], table[j]) => i = j

\* C14: the table is a function of the capabilities alone: every build
\* discards what the table held, so it leaves the table a build from an
\* empty table leaves for the capabilities in force (the same table again if
\* they did not change, the table of the new capabilities if they did), with
\* at most one entry per mode, NSS and width.
C14_TableOfCapabilities ==
    [][Built => /\ m_thresholds' = BuildSnrThresholds(<<>>, Cfg')
                /\ NoDuplicateKeys(m_thresholds')
                /\ (m_thresholds = BuildSnrThresholds(<<>>, Cfg')
                        => m_thresholds' = m_thresholds)]_vars

\* a lookup missed, rebuilt the table and found its key: the capabilities
\* had changed since the table was built
C14_Witness ==
    /\ ret.op = "lookup" /\ ret.rebuilds = 1 /\ ~aborted
    /\ FindThreshold(m_thresholds, ret.mode, ret.nss, ret.width, 1) # 0

Range(seq) == {seq[i] : i \in 1..Len(seq)}

Key(mode, nss, width) == [mode |-> mode, nss |-> nss, width |-> width]

\* the keys the claim lists for the capabilities c
ExpectedKeys(c) ==
    {Key(mode, 1, IF mode.cls \in {"DSSS", "HR_DSSS"} THEN 22 ELSE 20)
        : mode \in Range(c.phyModeList)}
    \cup (IF ~c.ht THEN {}
          ELSE {k \in {Key(mode, nss, width) : mode \in Range(c.phyMcsList),
                                               nss \in 1..4,
                                               width \in {20, 40, 80, 160}} :
                   /\ k.width <= c.phyWidth
                   /\ IF k.mode.cls = "HT" THEN k.nss = (k.mode.idx \div 8) + 1
                                           ELSE k.nss <= c.phyStreams
                   /\ IsAllowed(k.mode, k.width, k.nss)
                   /\ ~(k.mode = Mode("VHT", 9) /\ k.width = 20 /\ k.nss \in {1, 2})})

\* C15: after a build the table holds one entry for each non-HT mode of the
\* PHY (NSS 1, the non-HT width of the mode) and, only with HT enabled, one
\* for each MCS at each of the widths 20, 40, 80, 160 MHz up to the width of
\* the PHY and each NSS the format allows; it holds no other entry.
C15_TableContent ==
    [][Built =>
         /\ {Key(e.mode, e.nss, e.width) : e \in Range(m_thresholds')} = ExpectedKeys(Cfg')
         /\ Len(m_thresholds') = Cardinality(ExpectedKeys(Cfg'))
         /\ \A e \in Range(m_thresholds') :
                e.snr = RequiredSnrTable[RateIndex(e.mode) + 1]]_vars

\* the table was rebuilt for an 80 MHz VHT device: HT and VHT entries up to
\* 80 MHz, and none for VHT MCS 9 at 20 MHz
C15_Witness ==
    /\ ret.op = "lookup" /\ ret.rebuilds = 1
    /\ Cfg.phyWidth = 80
    /\ FindThreshold(m_thresholds, Mode("HT", 0), 1, 80, 1) # 0
    /\ FindThreshold(m_thresholds, Mode("VHT", 9), 2, 40, 1) # 0
    /\ FindThreshold(m_thresholds, Mode("VHT", 9), 1, 20, 1) = 0
    /\ FindThreshold(m_thresholds, Mode("VHT", 9), 2, 20, 1) = 0

----------------------------------------------------------------------------
(* Properties of the cache sentinel and of the selection history *)

\* C16: m_lastSnrCached of a link is the sentinel -100 exactly when no
\* Warm-up search has recorded a decision for the link since it was created
\* or last reset: only a reset makes it the sentinel, only a Warm-up search
\* of the link ends that; and while it is the sentinel m_lastMode is the
\* default mode and m_lastNss is 1.
C16_SentinelUntilSearch ==
    [][\A l \in Links :
         LET before == stations[l].m_lastSnrCached = CACHE_INITIAL_VALUE
             after == stations'[l].m_lastSnrCached = CACHE_INITIAL_VALUE
             searched == /\ ret'.op = "data" /\ ret'.link = l
                         /\ ret'.phase = "warmup" /\ ~ret'.hit /\ ret' # ret
             reset == /\ ret'.op = "none"
                      /\ (ReportFinalRtsFailed(l) \/ ReportFinalDataFailed(l))
         IN  /\ after <=> (reset \/ (before /\ ~searched))
             /\ before => /\ stations[l].m_lastMode = GetDefaultMode(Cfg)
                          /\ stations[l].m_lastNss = 1
             /\ after => /\ stations'[l].m_lastMode = GetDefaultMode(Cfg)
                         /\ stations'[l].m_lastNss = 1]_vars

\* a link whose search had picked HE MCS 2 was reset: the sentinel is back
C16_Witness ==
    \E l \in Links :
        /\ stations[l].m_lastSnrCached = CACHE_INITIAL_VALUE
        /\ stations[l].m_lastMode = GetDefaultMode(Cfg)
        /\ Len(choosenMCS) > 0
        /\ choosenMCS[1] = 2

\* C17: choosenMCS is append-only: no step shortens it or changes or moves
\* an entry it holds.
C17_AppendOnly ==
    [][/\ Len(choosenMCS') >= Len(choosenMCS)
       /\ SubSeq(choosenMCS', 1, Len(choosenMCS)) = choosenMCS]_vars

\* a history of two successes outlived the end of the Warm-up phase, a reset
\* of the link and a Converged request
C17_Witness ==
    /\ ConvergedReturned
    /\ Len(choosenMCS) >= 2
    /\ warmLen >= 1
    /\ stations[ret.link].m_lastSnrCached = CACHE_INITIAL_VALUE

\* a vector has been returned for the link since it was created or reset
HasSelection(station) == station.m_lastChannelWidth # 0

\* C18: a report of a successful data transmission (with an SNR other than
\* 0, see C11) for a link that has been given a mode appends exactly one
\* entry to choosenMCS, the MCS index of the mode recorded for the link; an
\* A-MPDU status report appends one such entry per MPDU delivered and none
\* per MPDU failed; no other step appends.
C18_OneAppendPerSuccess ==
    [][/\ \A l \in Links, snr \in Snrs \ {0}, w \in Widths, nss \in Streams :
            (/\ ret' = NoRet
             /\ HasSelection(stations[l])
             /\ ReportDataOk(l, snr, w, nss)) =>
                /\ ~aborted'
                /\ choosenMCS' = Append(choosenMCS, stations[l].m_lastMode.idx)
       /\ \A l \in Links, snr \in Snrs \ {0}, w \in Widths, nss \in Streams,
             nOk \in 0..MaxMpdus, nFail \in 0..1 :
            (/\ ret' = NoRet
             /\ HasSelection(stations[l])
             /\ ReportAmpduTxStatus(l, nOk, nFail, snr, w, nss)) =>
                /\ ~aborted'
                /\ choosenMCS' = choosenMCS \o Repeat(stations[l].m_lastMode.idx, nOk)
       /\ choosenMCS' # choosenMCS =>
            \E l \in Links, snr \in Snrs, w \in Widths, nss \in Streams :
                \/ ReportDataOk(l, snr, w, nss)
                \/ \E nOk \in 1..MaxMpdus, nFail \in 0..1 :
                      ReportAmpduTxStatus(l, nOk, nFail, snr, w, nss)]_vars

\* the modes a Converged request of the link can return for the history
ConvergedModes(station, hist, w) ==
    {r.ret.mode : r \in {x \in DoGetDataTxVector(station, m_thresholds, hist, now, w, Cfg) :
                            ~x.aborted}}

\* C19: the history is kept per link: a report of a success for link a does
\* not change the mode a Converged request returns for another link b.
C19_HistoryPerLink ==
    (now >= WarmupSeconds /\ ~aborted /\ Len(choosenMCS) > 0) =>
        \A a \in Links, b \in Links :
            a # b =>
                \A snr \in Snrs, w \in Widths, nss \in Streams :
                    \A o \in DoReportDataOk(stations[a], choosenMCS, snr, w, nss, Cfg) :
                        ~o.aborted =>
                            \A wb \in Widths :
                                ConvergedModes(stations[b], o.hist, wb)
                                    = ConvergedModes(stations[b], choosenMCS, wb)

\* C20: the estimate for a width and an NSS is m_lastSnrObserved itself when
\* both equal the observed ones; else it is m_lastSnrObserved divided by
\* (width / observed width) if the widths differ and by (NSS / observed NSS)
\* if the NSS differ.  As est = num/den: est * ratios = m_lastSnrObserved.
C20_EstimateRescaled ==
    \A l \in Links, w \in {20, 40}, nss \in 1..2 :
        LET st == stations[l]
            est == GetLastObservedSnr(st, w, nss)
            sameWidth == w = st.m_lastChannelWidthObserved
            sameNss == nss = st.m_lastNssObserved
        IN  /\ est.den > 0
            /\ (sameWidth /\ sameNss) => est.num = st.m_lastSnrObserved * est.den
            /\ est.num * (IF sameWidth THEN 1 ELSE w) * (IF sameNss THEN 1 ELSE nss)
                 = st.m_lastSnrObserved * est.den
                     * (IF sameWidth THEN 1 ELSE st.m_lastChannelWidthObserved)
                     * (IF sameNss THEN 1 ELSE st.m_lastNssObserved)

\* a search at 40 MHz used an SNR of 16 observed at 20 MHz as 8 and picked
\* HE MCS 1, whose threshold 4 is the highest below 8
C20_Witness ==
    /\ WarmupReturned /\ ~ret.hit
    /\ ret.est = [num |-> 320, den |-> 40]
    /\ ret.mode = Mode("HE", 1)

----------------------------------------------------------------------------
(* The guard interval of the data vector *)

\* C21: the guard interval of every returned data vector follows the class of
\* the selected mode: for HT and VHT 400 ns if both the local node and the
\* peer support the short guard interval and 800 ns otherwise, for HE the
\* longer of the two configured HE guard intervals, for non-HT modes 800 ns.
C21_GuardIntervalByClass ==
    ret.op = "data" =>
        ret.gi = CASE ret.mode.cls \in {"HT", "VHT"} ->
                        (IF Cfg.shortGi /\ Cfg.staShortGi THEN 400 ELSE 800)
                   [] ret.mode.cls = "HE" ->
                        (IF Cfg.gi >= Cfg.staGi THEN Cfg.gi ELSE Cfg.staGi)
                   [] OTHER -> 800

\* an HT mode is returned on a link where only the local node supports the
\* short guard interval
C21_Witness ==
    /\ ret.op = "data"
    /\ ret.mode.cls = "HT"
    /\ Cfg.shortGi /\ ~Cfg.staShortGi
    /\ ret.gi = 800

----------------------------------------------------------------------------
(* The control vectors *)

\* the last handler was a request for a control vector
RtsReturned == ret.op = "rts"

\* the stored threshold of a basic mode at NSS 1 and its non-HT width
BasicThreshold(mode) ==
    TableSnr(m_thresholds, mode, 1, IF mode.cls \in {"DSSS", "HR_DSSS"} THEN 22 ELSE 20)

\* the basic modes whose threshold is strictly below the raw observed SNR
ClearingBasicModes(l) ==
    {Cfg.basicModes[i] : i \in {j \in 1..Len(Cfg.basicModes) :
        BasicThreshold(Cfg.basicModes[j]) < stations[l].m_lastSnrObserved}}

\* C22: with the attribute off, the mode of the control vector is the basic
\* mode with the highest threshold strictly below the link's lastSnrObserved
\* (the highest threshold, not the highest data rate); when no basic mode
\* clears, it is the default mode.
C22_HighestClearingThreshold ==
    RtsReturned /\ ~m_autoMCS =>
        IF ClearingBasicModes(ret.link) = {}
        THEN ret.mode = Cfg.phyModeList[1]
        ELSE /\ ret.mode \in ClearingBasicModes(ret.link)
             /\ \A mode \in ClearingBasicModes(ret.link) :
                    BasicThreshold(mode) <= BasicThreshold(ret.mode)

\* the 11 Mb/s mode is returned although the 12 Mb/s mode clears as well
C22_Witness ==
    /\ RtsReturned /\ ~m_autoMCS
    /\ ret.mode = Mode("HR_DSSS", 1)
    /\ Mode("ERP_OFDM", 1) \in ClearingBasicModes(ret.link)

\* C23: every control vector, under either value of the attribute and in any
\* state of the link, has NSS 1 and the non-HT width of its mode: 22 MHz for
\* the DSSS and HR-DSSS modes, 20 MHz otherwise.
C23_RtsNssAndWidth ==
    RtsReturned =>
        /\ ret.nss = 1
        /\ ret.width = IF ret.mode.cls \in {"DSSS", "HR_DSSS"} THEN 22 ELSE 20

\* a DSSS mode is returned while the OFDM modes do not clear
C23_Witness ==
    /\ RtsReturned
    /\ ret.mode = Mode("DSSS", 0)
    /\ stations[ret.link].m_lastSnrObserved = 4
    /\ ret.width = 22

\* C24: with the attribute on, every control vector carries OFDM 6 Mb/s,
\* whatever the observed SNR, the cached decision, the history and the time.
C24_FixedControlMode == RtsReturned /\ m_autoMCS => ret.mode = OfdmRate6Mbps

\* a request in the Converged phase on a link with a high observed SNR, a
\* cached selection and a history
C24_Witness ==
    /\ RtsReturned /\ m_autoMCS
    /\ ret.mode = OfdmRate6Mbps
    /\ now >= WarmupSeconds
    /\ stations[ret.link].m_lastSnrObserved = 16
    /\ stations[ret.link].m_lastSnrCached # CACHE_INITIAL_VALUE
    /\ Len(choosenMCS) > 0

----------------------------------------------------------------------------
(* The received power *)

\* a single call of the model returned
RxPowerReturned == ret.op = "rxpower"

\* the position lies in the building
Inside(p) == p[1] >= 0 /\ p[1] <= 100 /\ p[2] >= 0 /\ p[2] <= 100 /\ p[3] >= 0 /\ p[3] <= 12

\* C25: whenever both endpoints have building information and one of them is
\* indoor while the other is outdoor, the received power is exactly 0, at any
\* distance.
C25_BlockedLink ==
    RxPowerReturned /\ wifiNodes[ret.tx].info /\ wifiNodes[ret.rx].info
        /\ Inside(wifiNodes[ret.tx].position) # Inside(wifiNodes[ret.rx].position)
    => ret.power = 0

\* the power from an outdoor node 10 m away from the indoor receiver
C25_Witness ==
    /\ RxPowerReturned
    /\ wifiNodes[ret.tx].info /\ wifiNodes[ret.rx].info
    /\ wifiNodes[ret.tx].position = <<-10, 25, 3>>
    /\ wifiNodes[ret.rx].position = <<25, 25, 3>>
    /\ ret.power = 0

\* C26: for two endpoints at the same position the transmit power is
\* returned unchanged, whatever the frequency and the building information.
C26_ZeroDistance ==
    RxPowerReturned /\ wifiNodes[ret.tx].position = wifiNodes[ret.rx].position
    => ret.power = wifiNodes[ret.tx].txPower

\* two outdoor nodes with building information at the same position
C26_Witness ==
    /\ RxPowerReturned
    /\ wifiNodes[ret.tx].info /\ wifiNodes[ret.rx].info
    /\ wifiNodes[ret.tx].position = <<-10, 25, 3>>
    /\ wifiNodes[ret.rx].position = <<-10, 25, 3>>
    /\ ret.frequency = 5000
    /\ ret.power = wifiNodes[ret.tx].txPower

----------------------------------------------------------------------------
(* The measurement loop and the action callback *)

\* the scheduled runs of GenerateMeasurement
PendingMeasurements == {i \in 1..Len(events) : events[i].handler = "GenerateMeasurement"}

\* C28: in the three programs the first run of GenerateMeasurement is
\* scheduled for the measurement start time and every run schedules exactly
\* one next run one interval later: until the simulation stops exactly one
\* run is pending, for the start time or for one interval after the last
\* run, so runs happen at start + k * interval only; the records of a run
\* all carry the simulated time of the run.
C28_MeasurementLoop ==
    /\ Cardinality(PendingMeasurements) <= 1
    /\ events # <<>> =>
          \E i \in PendingMeasurements :
             events[i].time = IF measurements = {} THEN measStartTime
                              ELSE (CHOOSE r \in measurements : TRUE).time + measInterval
    /\ \A r \in measurements :
          /\ r.time >= measStartTime
          /\ \E k \in 0..(r.time \div 1000) : r.time = measStartTime + k * measInterval
          /\ \A q \in measurements : q.time = r.time
    /\ ret.op = "measurement" =>
          /\ measurements # {}
          /\ \A r \in measurements : r.time = now * 1000

\* the third run of multi-bss.cc has just appended its records
C28_Witness ==
    /\ program = "multi-bss"
    /\ ret.op = "measurement"
    /\ measInterval > 0
    /\ now * 1000 = measStartTime + 2 * measInterval
    /\ Cardinality(measurements) > 1
    /\ Cardinality(PendingMeasurements) = 1

\* C29: a null action changes neither the data mode, nor the control mode,
\* nor the CCA threshold or the preamble detection model of any node, nor
\* the state of the rate manager.
C29_NullActionNoEffect ==
    [][(ret'.op = "action" /\ ret'.action = <<>>) =>
          UNCHANGED <<m_dataMode, m_ctlMode, wifiNodes, aiManager, managerVars>>]_vars

\* a null action arrived after an action had lowered the sensitivity of the
\* nodes of BSS 0, which stays lowered
C29_Witness ==
    /\ program = "multi-bss"
    /\ ret.op = "action"
    /\ ret.action = <<>>
    /\ wifiNodes[1].cca = -62
    /\ wifiNodes[N_BSS + 1].bss = 0
    /\ wifiNodes[N_BSS + 1].minRssi = -62
    /\ wifiNodes[2].cca = -82

\* C30: in single-sta-single-link.cc the manager starts with the modes
\* main() configured; a non-null action m sets the data mode to HE MCS m and
\* the RTS mode to the OFDM mode of the non-HT reference rate of m; no other
\* step (a report, a request, a measurement, a null action) changes either
\* mode; a data request returns the data mode and an RTS request the RTS
\* mode.
C30_ModesFollowAction ==
    /\ program = "single-sta-single-link" =>
          \E mcs \in 0..MaxHeMcs :
             /\ m_dataMode = [cls |-> "HE", prefix |-> "HeMcs", value |-> mcs]
             /\ m_ctlMode \in {[cls |-> "HE", prefix |-> "HeMcs", value |-> mcs],
                               [cls |-> "OFDM", prefix |-> "OfdmRate",
                                value |-> GetNonHtReferenceRate(mcs)],
                               [cls |-> "ERP_OFDM", prefix |-> "ErpOfdmRate",
                                value |-> GetNonHtReferenceRate(mcs)]}
    /\ [][program = "single-sta-single-link" =>
             /\ ret'.op = "aidata" => ret'.mode = m_dataMode'
             /\ ret'.op = "airts" => ret'.mode = m_ctlMode'
             /\ IF ret'.op = "action" /\ ret'.action # <<>> /\ ~aborted'
                THEN /\ m_dataMode' = [cls |-> "HE", prefix |-> "HeMcs",
                                       value |-> ret'.action[1]]
                     /\ m_ctlMode' = [cls |-> "OFDM", prefix |-> "OfdmRate",
                                      value |-> GetNonHtReferenceRate(ret'.action[1])]
                ELSE UNCHANGED <<m_dataMode, m_ctlMode>>]_vars

\* an RTS request after the action 5: 48 Mb/s, with the data mode at HE MCS 5
C30_Witness ==
    /\ ret.op = "airts"
    /\ ret.mode = [cls |-> "OFDM", prefix |-> "OfdmRate", value |-> 48]
    /\ ret.width = 20
    /\ m_dataMode = [cls |-> "HE", prefix |-> "HeMcs", value |-> 5]

----------------------------------------------------------------------------
(* The streams and the modulation class of a selection *)

\* C31: every HT candidate of a search and every HT entry of the table has
\* NSS = (MCS index / 8) + 1; a vector returned by a Warm-up search has an
\* NSS between 1 and the smaller of the local transmit streams and the
\* streams of the peer; a vector returned in the Converged phase has NSS 1.
C31_NssOfSelection ==
    /\ \A w \in Widths : \A i \in 1..Len(Candidates(w, Cfg)) :
          LET cand == Candidates(w, Cfg)[i]
          IN  cand.mode.cls = "HT" => cand.nss = (cand.mode.idx \div 8) + 1
    /\ \A i \in 1..Len(m_thresholds) :
          m_thresholds[i].mode.cls = "HT" =>
             m_thresholds[i].nss = (m_thresholds[i].mode.idx \div 8) + 1
    /\ WarmupReturned /\ ~ret.hit =>
          ret.nss \in 1..Min(Cfg.maxTxStreams, Cfg.staStreams)
    /\ ConvergedReturned => ret.nss = 1

\* a search over HT modes, the two-stream mode of index 8 among them, looked
\* every candidate up and returned an HT mode
C31_Witness ==
    /\ WarmupReturned /\ ~ret.hit
    /\ \E i \in 1..Len(Candidates(ret.channelWidth, Cfg)) :
          /\ Candidates(ret.channelWidth, Cfg)[i].mode = Mode("HT", 8)
          /\ Candidates(ret.channelWidth, Cfg)[i].nss = 2
    /\ ret.lookups = Len(Candidates(ret.channelWidth, Cfg))
    /\ ret.mode = Mode("HT", 1)
    /\ ret.nss = 1

\* the capability sets of the two ends of a link with the lists of c: a
\* device or a peer that supports VHT or HE supports HT as well
CapabilitySets(c) ==
    {[c EXCEPT !.ht = ht, !.vht = vht, !.he = he,
               !.staHt = staHt, !.staVht = staVht, !.staHe = staHe] :
        <<ht, vht, he, staHt, staVht, staHe>> \in
            {f \in BOOLEAN \X BOOLEAN \X BOOLEAN \X BOOLEAN \X BOOLEAN \X BOOLEAN :
                /\ (f[2] \/ f[3]) => f[1]
                /\ (f[5] \/ f[6]) => f[4]}}

\* the candidate is one the search of a link with capabilities c may consider
OfSearchedClass(cand, c) ==
    IF c.ht /\ c.staHt
    THEN cand.mode.cls = (IF c.he /\ c.staHe THEN "HE"
                          ELSE IF c.vht /\ c.staVht THEN "VHT" ELSE "HT")
    ELSE /\ cand.mode \in Range(c.modeList)
         /\ ~IsHtOrLater(cand.mode)
         /\ cand.nss = 1
         /\ cand.width = GetChannelWidthForNonHtMode(cand.mode)

\* C32: a Warm-up search considers the modes of one class only: HE if both
\* ends support HE, else VHT if both support VHT, else HT if both support
\* HT, and without HT on both ends the non-HT modes of the peer, with NSS 1
\* and the non-HT width of the mode; the mode a search with a qualifying
\* candidate returns is one of them.
C32_HighestCommonClass ==
    /\ \A c \in CapabilitySets(Cfg), w \in Widths :
          \A i \in 1..Len(Candidates(w, c)) : OfSearchedClass(Candidates(w, c)[i], c)
    /\ WarmupReturned /\ ~ret.hit /\ ret.qualified =>
          OfSearchedClass([mode |-> ret.mode, nss |-> ret.nss, width |-> ret.width], Cfg)

\* a search between VHT devices, whose peer lists HT modes too, returned a
\* VHT mode
C32_Witness ==
    /\ WarmupReturned /\ ~ret.hit /\ ret.qualified
    /\ Cfg.vht /\ Cfg.staVht /\ ~Cfg.he
    /\ \E i \in 1..Len(Cfg.mcsList) : Cfg.mcsList[i].cls = "HT"
    /\ ret.mode.cls = "VHT"

----------------------------------------------------------------------------
(* The cache against the search it stands for *)

\* C33: a Warm-up request answered from the cache returns the mode and NSS
\* that a search run at that moment would return, for the observation of
\* the link (SNR, width, NSS), the requested width and the capabilities.
C33_CacheTransparent ==
    [][\A l \in Links, w \in Widths :
         (Served(l, w)' /\ ret'.phase = "warmup" /\ ret'.hit /\ GetDataTxVector(l, w)) =>
            \E fresh \in Search(stations[l], m_thresholds, Min(Cfg.staWidth, w), Cfg) :
               /\ ~fresh.fatal
               /\ ret'.mode = fresh.maxMode
               /\ ret'.nss = fresh.selectedNss]_vars

----------------------------------------------------------------------------
(* The history when the Converged phase is entered *)

\* C34: whenever a data request is handled in the Converged phase,
\* choosenMCS is non-empty, so the mean is defined (no division by zero),
\* and the MCS index used lies between the smallest and the largest entry
\* of the history.
C34_HistoryNonEmpty ==
    [][\A l \in Links, w \in Widths :
         (now >= WarmupSeconds /\ GetDataTxVector(l, w)) =>
            /\ Len(choosenMCS) > 0
            /\ ~aborted'
            /\ \E i, j \in 1..Len(choosenMCS) :
                  /\ choosenMCS[i] <= ret'.mode.idx
                  /\ ret'.mode.idx <= choosenMCS[j]]_vars

----------------------------------------------------------------------------
(* The handlers that record nothing, among all the handlers of a manager   *)
(* serving several links                                                   *)

\* AutoMcsWifiManager::DoReportRxOk: the body is empty
DoReportRxOk(station, hist, rxSnr, txMode) == {Reported(station, hist, FALSE)}

\* AutoMcsWifiManager::DoReportRtsFailed: the body is empty
DoReportRtsFailed(station, hist) == {Reported(station, hist, FALSE)}

\* a failed attempt handled as a final failure is
DoReportDataFailedResetting(station, hist) == {Reported(Reset(Cfg), hist, FALSE)}

\* AutoMcsWifiManager::DoReportDataFailed: the body is empty
DoReportDataFailed(station, hist) == {Reported(station, hist, FALSE)}

ReportRxOk(l, rxSnr, txMode) ==
    Report(l, DoReportRxOk(stations[l], choosenMCS, rxSnr, txMode), FALSE)

ReportRtsFailed(l) == Report(l, DoReportRtsFailed(stations[l], choosenMCS), FALSE)

ReportDataFailed(l) == Report(l, DoReportDataFailed(stations[l], choosenMCS), FALSE)

\* a manager serving several links, whose control vectors are searched for
InitFrame == InitWith(MultiLinkConfigs, {FALSE})

\* the SNRs reported to it
FrameSnrs == {4, 16}

\* some handler ran for link l
HandlerFor(l) ==
    \/ \E w \in Widths : GetDataTxVector(l, w)
    \/ GetRtsTxVector(l)
    \/ \E snr \in FrameSnrs : ReportRxOk(l, snr, GetDefaultMode(Cfg))
    \/ ReportRtsFailed(l)
    \/ ReportDataFailed(l)
    \/ \E snr \in FrameSnrs : ReportRtsOk(l, snr)
    \/ \E snr \in FrameSnrs, w \in Widths, nss \in Streams : ReportDataOk(l, snr, w, nss)
    \/ \E nOk \in 0..1, snr \in FrameSnrs, w \in Widths, nss \in Streams :
          ReportAmpduTxStatus(l, nOk, 1 - nOk, snr, w, nss)
    \/ ReportFinalRtsFailed(l)
    \/ ReportFinalDataFailed(l)

NextFrame ==
    \/ Tick
    \/ \E l \in Links : HandlerFor(l)

SpecFrame == InitFrame /\ [][NextFrame]_vars

\* C35: the RxOk, non-final RTS-failed and non-final data-failed reports and
\* every control-vector request leave the state of every link and choosenMCS
\* unchanged; any report, reset or data request for a link A leaves the
\* state of every other link B unchanged.
C35_Frame ==
    [][\A a \in Links :
         /\ (\/ \E snr \in FrameSnrs : ReportRxOk(a, snr, GetDefaultMode(Cfg))
             \/ ReportRtsFailed(a)
             \/ ReportDataFailed(a)
             \/ GetRtsTxVector(a)) =>
               stations' = stations /\ choosenMCS' = choosenMCS
         /\ HandlerFor(a) =>
               \A b \in Links \ {a} : stations'[b] = stations[b]]_vars

\* two links hold different decisions away from the defaults, the history
\* has entries, and the last handler was a control-vector request
C35_Witness ==
    /\ ret.op = "rts"
    /\ Len(choosenMCS) > 0
    /\ \E a, b \in Links :
          /\ stations[a].m_lastSnrCached # CACHE_INITIAL_VALUE
          /\ stations[b].m_lastSnrCached # CACHE_INITIAL_VALUE
          /\ stations[a].m_lastMode # stations[b].m_lastMode

----------------------------------------------------------------------------
(* The count of a step in multi-bss.cc *)

\* C36: in multi-bss.cc the success count of a station used for the uplink
\* throughput sample of every measurement after the first is the cumulative
\* total now minus the cumulative total at the previous measurement, for
\* any number of measurement periods.
C36_StepIsDifference ==
    [][(GenerateMeasurement /\ stepSuccPerNodeInitialized) =>
          \A i \in DOMAIN wifiTxStats :
             i >= N_BSS =>
                stepSuccPerNode'[i] = wifiTxStats[i].succ - succAtLastMeasurement[i]]_vars

----------------------------------------------------------------------------
(* The nodes an action of multi-bss.cc changes *)

\* C37: in multi-bss.cc a non-null action sets the CCA threshold and the
\* minimum RSSI of the preamble detection to the action value on exactly the
\* nodes of BSS 0: every visited node (0, N_BSS, 2 * N_BSS, ...) belongs to
\* BSS 0, so the SSID assertion holds for every configured number of access
\* points and stations per BSS, and no node of another BSS is changed.
C37_ExactlyBssZero ==
    [][(program = "multi-bss" /\ ret'.op = "action" /\ ret'.action # <<>>) =>
          /\ ~aborted'
          /\ \A k \in 1..Len(wifiNodes) :
                IF wifiNodes[k].bss = 0
                THEN /\ wifiNodes'[k].cca = ret'.action[1]
                     /\ wifiNodes'[k].minRssi = ret'.action[1]
                ELSE wifiNodes'[k] = wifiNodes[k]]_vars

----------------------------------------------------------------------------
(* The end of a run *)

\* Simulator::Run: the event at the head of the queue is run
RunEvent ==
    \/ StartMeasurement
    \/ Stop
    \/ GenerateMeasurementApb
    \/ GenerateMeasurementSingleSta
    \/ GenerateMeasurement

\* a run in which the simulator keeps running the pending events
SpecScenarioFair == InitScenario /\ [][NextScenario]_vars /\ WF_vars(RunEvent)

\* C38: every run of the three programs terminates: for any configured
\* measurement start time, measurement interval and end time the simulated
\* time eventually reaches the stop time (the event of Simulator::Stop
\* runs and empties the queue), the measurement event that schedules
\* itself does not keep the run alive, and no measurement is generated
\* after the stop time.
C38_Terminates ==
    /\ <>(events = <<>>)
    /\ [](\A i \in 1..Len(events) :
             events[i].handler = "Stop" =>
                \A r \in measurements : r.time <= events[i].time)

====
